---- MODULE Spec2Model ----
(***************************************************************************)
(* Real-time collaboration engine of the diagram editor back end:          *)
(* CollabGateway (socket handlers), CollabService (permissions, share-link *)
(* usage, optimistic document mutation), DocumentsService (REST update and *)
(* remove) and ShareLinksService (accept, revoke).                         *)
(*                                                                         *)
(* Every handler is split at its awaits: one action per database round     *)
(* trip, so that handlers of different connections interleave exactly      *)
(* where the event loop lets them.                                         *)
(***************************************************************************)
EXTENDS Integers, FiniteSets, Sequences, TLC

\* ---------------------------------------------------------------- bounds
\* Calls (socket messages and REST requests) accepted in one behaviour.
MaxCalls == 2
\* Largest baseVersion a client supplies.
MaxVersion == 2
\* Clock ticks in one behaviour.
MaxTime == 1

\* ------------------------------------------------------------- universes
Docs == {"d1", "d2"}
Users == {"u1", "u2"}
Slugs == {"s1", "s2"}
Conns == {"c1", "c2", "c3"}
SheetIds == {"h1", "h2"}
TemplateIds == {"t1", "t2"}
Fields == {"nodes", "edges", "title"}

\* A nullable column or argument: <<>> is null, <<x>> carries x.
Null == <<>>
Some(x) == <<x>>
IsNull(v) == v = <<>>
Val(v) == v[1]

\* Document.projectId and Project.ownerSub: both documents belong to the one
\* project, which u1 owns and whose documents u1 created.
ProjectOf(d) == "p1"
OwnerSub(p) == "u1"
\* Document.createdBy: the owner created both documents.
CreatedBy(d) == "u1"

\* ----------------------------------------------------------------- state
VARIABLES
    docs,            \* Document rows: exists, data, version
    collab,          \* Collaborator rows: <<documentId, userSub>> -> role or "none"
    links,           \* ShareLink rows by slug
    now,             \* the clock new Date() reads
    conns,           \* sockets: status, userSub, isGuest, sharedToken
    rooms,           \* socket.io adapter: room doc:<id> -> member sockets
    alreadyCounted,  \* CollabService.alreadyCounted
    pc,              \* per socket: the handler in flight and its locals
    rest,            \* per user: the REST request in flight and its locals
    reply,           \* what the last step returned to its caller, if it returned
    emits,           \* the events the last step emitted
    wins,            \* per document: the baseVersions committed against, in order
    calls,           \* calls accepted so far
    sheets,          \* Sheet rows by id: exists, documentId, data, version, isActive
    templates,       \* Template rows by id: exists, title, data, version, isArchived
    received         \* per socket: the versions of the change events sent to it, in order

vars == <<docs, collab, links, now, conns, rooms, alreadyCounted, pc, rest,
          reply, emits, wins, calls, sheets, templates, received>>

\* -------------------------------------------------------- initial values
Data0 == [f \in Fields |-> 0]

NoLink ==
    [exists |-> FALSE, scope |-> "document", documentId |-> Null,
     projectId |-> Null, minRole |-> "reader", expiresAt |-> Null,
     maxUses |-> Null, uses |-> 0, isActive |-> FALSE]

\* What ShareLinksService.create persists for a request: uses 0, active.
NewLink(scope, target, minRole, expiresAt, maxUses) ==
    [exists |-> TRUE, scope |-> scope,
     documentId |-> IF scope = "document" THEN Some(target) ELSE Null,
     projectId |-> IF scope = "project" THEN Some(target) ELSE Null,
     minRole |-> minRole, expiresAt |-> expiresAt, maxUses |-> maxUses,
     uses |-> 0, isActive |-> TRUE]

\* Share links a sharer of d1 has created under slug s1, the last one
\* revoked since.
LinkChoices ==
    { NewLink("document", "d1", "editor", Some(0), Some(1)),
      NewLink("document", "d1", "reader", Null, Null),
      NewLink("document", "d1", "editor", Null, Some(0)),
      NewLink("project", "p1", "editor", Null, Null),
      [NewLink("document", "d1", "editor", Null, Null) EXCEPT !.isActive = FALSE] }

Idle == [op |-> "idle"]
NoReply == [op |-> "none"]
NoConn ==
    [status |-> "new", userSub |-> Null, isGuest |-> FALSE, sharedToken |-> Null,
     jwt |-> Null]

\* `guest:${sharedToken}`
GuestSub(slug) == IF slug = "s1" THEN "guest:s1" ELSE "guest:s2"

\* The socket handleConnection leaves for a share-link token.
GuestConn(slug) ==
    [NoConn EXCEPT !.status = "open", !.userSub = Some(GuestSub(slug)),
                   !.isGuest = TRUE, !.sharedToken = Some(slug)]

\* The socket handleConnection leaves for a bearer token that verifies.
UserConn(sub) ==
    [NoConn EXCEPT !.status = "open", !.userSub = Some(sub), !.jwt = Some(sub)]

\* The rows DocumentsService.create leaves (version 1, an owner row for the
\* creator u1) and the role u2 holds on d1.
InitRows(r) ==
    /\ docs = [d \in Docs |-> [exists |-> TRUE, data |-> Data0, version |-> 1]]
    /\ collab = [k \in Docs \X Users |->
                    IF k[2] = "u1" THEN "owner"
                    ELSE IF k[1] = "d1" THEN r ELSE "none"]

\* A sheet of d1 at version v with empty-ish nodes and edges.
SheetAt(v) ==
    [exists |-> TRUE, documentId |-> "d1", isActive |-> TRUE,
     data |-> [nodes |-> 0, edges |-> 0], version |-> v]

\* No template row, and the row TemplatesService.create saves: a version
\* column starts at 1.
NoTemplate ==
    [exists |-> FALSE, data |-> 0, version |-> 0, title |-> 0, isArchived |-> FALSE]
NewTemplate(title, data) ==
    [exists |-> TRUE, data |-> data, version |-> 1, title |-> title,
     isArchived |-> FALSE]

\* Nothing in flight, nothing emitted, nobody in a room.
InitQuiet ==
    /\ templates = [t \in TemplateIds |-> NoTemplate]
    /\ received = [c \in Conns |-> <<>>]
    /\ sheets = [h \in SheetIds |-> SheetAt(1)]
    /\ now = 0
    /\ rooms = [d \in Docs |-> {}]
    /\ alreadyCounted = {}
    /\ pc = [c \in Conns |-> Idle]
    /\ rest = [u \in Users |-> Idle]
    /\ reply = NoReply
    /\ emits = {}
    /\ wins = [d \in Docs |-> <<>>]
    /\ calls = 0

\* No socket has connected yet.
Init ==
    /\ \E r \in {"none", "editor", "reader"} : InitRows(r)
    /\ \E l \in LinkChoices : links = [s \in Slugs |-> IF s = "s1" THEN l ELSE NoLink]
    /\ conns = [c \in Conns |-> NoConn]
    /\ InitQuiet

\* Three sockets have connected: c1 as u1, c2 as u2, c3 as a guest holding
\* slug s1 or the slug s2, which was never issued.
InitJoin ==
    /\ \E r \in {"none", "editor", "reader"} : InitRows(r)
    /\ \E l \in LinkChoices : links = [s \in Slugs |-> IF s = "s1" THEN l ELSE NoLink]
    /\ \E s \in Slugs :
          conns = [c \in Conns |->
                     IF c = "c1" THEN UserConn("u1")
                     ELSE IF c = "c2" THEN UserConn("u2") ELSE GuestConn(s)]
    /\ InitQuiet

\* ------------------------------------------------------- pure operations
\* ShareLink.isExpired: expiresAt && new Date() > expiresAt.
IsExpired(l) == ~IsNull(l.expiresAt) /\ now > Val(l.expiresAt)

\* link.maxUses && link.uses >= link.maxUses: a maxUses of 0 is falsy.
UsesReached(l) ==
    ~IsNull(l.maxUses) /\ Val(l.maxUses) # 0 /\ l.uses >= Val(l.maxUses)

\* A faulty variant: the lookup by slug without isActive.
FoundAny(s) == links[s].exists

\* shareLinkRepo.findOne({ where: { slug, isActive: true } }) found a row.
FoundActive(s) == links[s].exists /\ links[s].isActive

\* CollabService.ensureCanJoin: "ok", or the exception it throws.
EnsureCanJoin(d, userSub, sharedToken) ==
    IF ~IsNull(userSub) /\ IsNull(sharedToken)
    THEN IF collab[<<d, Val(userSub)>>] = "none" THEN "Forbidden" ELSE "ok"
    ELSE IF ~IsNull(sharedToken)
    THEN LET l == links[Val(sharedToken)] IN
         IF ~FoundActive(Val(sharedToken)) THEN "Forbidden"
         ELSE IF IsExpired(l) THEN "Forbidden"
         ELSE IF UsesReached(l) THEN "Forbidden"
         ELSE IF l.documentId # Some(d) THEN "Forbidden"
         ELSE "ok"
    ELSE "Forbidden"

\* A faulty variant: whoever may join may edit.
EnsureCanEditAnyRole(d, userSub, sharedToken) == EnsureCanJoin(d, userSub, sharedToken)

\* CollabService.ensureCanEdit: "ok", or the exception it throws.
EnsureCanEdit(d, userSub, sharedToken) ==
    IF ~IsNull(userSub) /\ IsNull(sharedToken)
    THEN IF collab[<<d, Val(userSub)>>] \in {"none", "reader"}
         THEN "Forbidden" ELSE "ok"
    ELSE IF ~IsNull(sharedToken)
    THEN LET l == links[Val(sharedToken)] IN
         IF ~FoundActive(Val(sharedToken)) THEN "Forbidden"
         ELSE IF IsExpired(l) THEN "Forbidden"
         ELSE IF UsesReached(l) THEN "Forbidden"
         ELSE IF l.documentId # Some(d) THEN "Forbidden"
         ELSE IF l.minRole # "editor" THEN "Forbidden"
         ELSE "ok"
    ELSE "ok"

\* CollabService.getPermissions: 'edit' or 'read'.
GetPermissions(d, userSub, sharedToken) ==
    IF ~IsNull(userSub) /\ IsNull(sharedToken)
    THEN IF collab[<<d, Val(userSub)>>] = "editor" THEN "edit" ELSE "read"
    ELSE IF ~IsNull(sharedToken)
    THEN LET l == links[Val(sharedToken)] IN
         IF ~FoundActive(Val(sharedToken)) \/ l.documentId # Some(d) THEN "read"
         ELSE IF l.minRole = "editor" THEN "edit" ELSE "read"
    ELSE "read"

\* The ops a client sends: each key absent (Null) or present.
Ops(apply, nodes, edges, title) ==
    [nodes |-> nodes, edges |-> edges, title |-> title, apply |-> apply]

OpsChoices ==
    { Ops(Some([f \in {"nodes", "title"} |-> 1]), Null, Null, Null),
      Ops(Null, Some(1), Null, Some(1)),
      Ops(Null, Null, Some(1), Null) }

\* CollabService.applyOpsPure: the first matching key decides.
ApplyOpsPure(data, ops) ==
    IF ~IsNull(ops.apply)
    THEN [f \in Fields |->
            IF f \in DOMAIN Val(ops.apply) THEN Val(ops.apply)[f] ELSE data[f]]
    ELSE IF ~IsNull(ops.nodes) THEN [data EXCEPT !.nodes = Val(ops.nodes)]
    ELSE IF ~IsNull(ops.edges) THEN [data EXCEPT !.edges = Val(ops.edges)]
    ELSE IF ~IsNull(ops.title) THEN [data EXCEPT !.title = Val(ops.title)]
    ELSE data

\* An event handed to socket.io: its name, room, emitting socket and the
\* sockets it is sent to.
Event(type, d, from, to, version, ops) ==
    [type |-> type, doc |-> d, from |-> from, to |-> to,
     version |-> version, ops |-> ops]

\* io.to(room): every socket in the room.
IoTo(rm, d) == rm[d]
\* A faulty variant: client.to(room) taken for io.to(room).
ClientToAll(rm, d, c) == rm[d]
\* client.to(room): every socket in the room but the client itself.
ClientTo(rm, d, c) == rm[d] \ {c}

\* The handler's view of its socket.
Guest(c) == conns[c].isGuest
\* The arguments onJoin and onChange pass to the service for this socket.
TokenArg(c) == IF Guest(c) THEN conns[c].sharedToken ELSE Null

Connected(c) == conns[c].status \in {"verifying", "open"}

\* ------------------------------------------------- connect and disconnect
\* What a handshake carries: a share-link token, a bearer token that
\* verifies to a subject or one that does not ("bad"), or nothing.
Creds(c) ==
    CASE c = "c1" -> {[sub |-> "u1", kind |-> "token"],
                      [sub |-> "none", kind |-> "none"]}
      [] c = "c2" -> {[sub |-> "u2", kind |-> "token"],
                      [sub |-> "bad", kind |-> "token"]}
      [] c = "c3" -> {[sub |-> "s1", kind |-> "shared"],
                      [sub |-> "s2", kind |-> "shared"]}

\* handleConnection up to its first await: a guest is set up at once, a
\* bearer token waits for jwtVerify, no credential disconnects.
HandleConnection(c) ==
    /\ conns[c].status = "new"
    /\ \E cr \in Creds(c) :
          conns' = [conns EXCEPT ![c] =
             CASE cr.kind = "shared" -> GuestConn(cr.sub)
               [] cr.kind = "token" ->
                    [NoConn EXCEPT !.status = "verifying", !.jwt = Some(cr.sub)]
               [] OTHER -> [NoConn EXCEPT !.status = "closed"]]
    /\ reply' = NoReply /\ emits' = {}
    /\ UNCHANGED <<docs, collab, links, now, rooms, alreadyCounted, pc, rest,
                   wins, calls, sheets, templates, received>>

\* A handleConnection whose catch leaves the socket connected.
HandleConnectionVerifiedNoCatch(c) ==
    /\ conns[c].status = "verifying"
    /\ conns' = [conns EXCEPT ![c] =
          IF Val(conns[c].jwt) \in Users
          THEN UserConn(Val(conns[c].jwt))
          ELSE [@ EXCEPT !.status = "open"]]
    /\ rooms' = rooms
    /\ reply' = NoReply /\ emits' = {}
    /\ UNCHANGED <<docs, collab, links, now, alreadyCounted, pc, rest,
                   wins, calls, sheets, templates, received>>

\* handleConnection after jwtVerify: the subject becomes userSub, a token
\* that does not verify throws and the catch disconnects.
HandleConnectionVerified(c) ==
    /\ conns[c].status = "verifying"
    /\ conns' = [conns EXCEPT ![c] =
          IF Val(conns[c].jwt) \in Users
          THEN UserConn(Val(conns[c].jwt))
          ELSE [@ EXCEPT !.status = "closed"]]
    /\ rooms' = IF Val(conns[c].jwt) \in Users THEN rooms
                ELSE [d \in Docs |-> rooms[d] \ {c}]
    /\ reply' = NoReply /\ emits' = {}
    /\ UNCHANGED <<docs, collab, links, now, alreadyCounted, pc, rest,
                   wins, calls, sheets, templates, received>>

\* The socket closes. socket.io empties the socket's rooms before it emits
\* 'disconnect', so handleDisconnect iterates over the rooms that are left.
HandleDisconnect(c) ==
    /\ Connected(c)
    /\ LET left == [d \in Docs |-> rooms[d] \ {c}]
           seen == {d \in Docs : c \in left[d]}
       IN /\ rooms' = left
          /\ emits' = {Event("presence:left", d, c, IoTo(left, d), 0, Null) :
                          d \in {x \in seen : ~IsNull(conns[c].userSub)}}
    /\ conns' = [conns EXCEPT ![c].status = "closed"]
    /\ reply' = NoReply
    /\ UNCHANGED <<docs, collab, links, now, alreadyCounted, pc, rest,
                   wins, calls, sheets, templates, received>>

\* ------------------------------------------------------------------ join
\* What a handler returns, or the exception it throws, to its caller.
Reply(who, op, d, result, version, data, perm) ==
    [who |-> who, op |-> op, doc |-> d, result |-> result, version |-> version,
     data |-> data, permission |-> perm]

\* onJoin up to its first await: the 'join' message arrives.
JoinCall(c, d) ==
    /\ Connected(c) /\ pc[c] = Idle /\ calls < MaxCalls
    /\ calls' = calls + 1
    /\ IF IsNull(conns[c].userSub)
       THEN /\ reply' = Reply(c, "join", d, "Unauthorized", 0, Null, "none")
            /\ UNCHANGED pc
       ELSE /\ pc' = [pc EXCEPT ![c] = [op |-> "join", step |-> "auth", doc |-> d]]
            /\ reply' = NoReply
    /\ emits' = {}
    /\ UNCHANGED <<docs, collab, links, now, conns, rooms, alreadyCounted,
                   rest, wins, sheets, templates, received>>

\* ensureCanJoin answers; a guest goes on into incrementShareUseOnce, which
\* returns at once for a slug in alreadyCounted.
JoinAuth(c) ==
    /\ pc[c].op = "join" /\ pc[c].step = "auth"
    /\ LET d == pc[c].doc IN
       IF EnsureCanJoin(d, conns[c].userSub, TokenArg(c)) # "ok"
       THEN /\ pc' = [pc EXCEPT ![c] = Idle]
            /\ reply' = Reply(c, "join", d, "Forbidden", 0, Null, "none")
       ELSE /\ pc' = [pc EXCEPT ![c].step =
                        IF Guest(c) /\ Val(conns[c].sharedToken) \notin alreadyCounted
                        THEN "incrRead" ELSE "perm"]
            /\ reply' = NoReply
    /\ emits' = {}
    /\ UNCHANGED <<docs, collab, links, now, conns, rooms, alreadyCounted,
                   rest, wins, calls, sheets, templates, received>>

\* incrementShareUseOnce reads the link: no active row, or a reached
\* maxUses, returns without counting.
JoinIncrRead(c) ==
    /\ pc[c].op = "join" /\ pc[c].step = "incrRead"
    /\ LET s == Val(conns[c].sharedToken) IN
       pc' = [pc EXCEPT ![c].step =
                IF ~FoundActive(s) \/ UsesReached(links[s])
                THEN "perm" ELSE "incrWrite"]
    /\ reply' = NoReply /\ emits' = {}
    /\ UNCHANGED <<docs, collab, links, now, conns, rooms, alreadyCounted,
                   rest, wins, calls, sheets, templates, received>>

\* shareLinkRepo.increment({ slug }, 'uses', 1), then alreadyCounted.add.
JoinIncrWrite(c) ==
    /\ pc[c].op = "join" /\ pc[c].step = "incrWrite"
    /\ LET s == Val(conns[c].sharedToken) IN
       /\ links' = [links EXCEPT ![s].uses = IF links[s].exists THEN @ + 1 ELSE @]
       /\ alreadyCounted' = alreadyCounted \cup {s}
    /\ pc' = [pc EXCEPT ![c].step = "perm"]
    /\ reply' = NoReply /\ emits' = {}
    /\ UNCHANGED <<docs, collab, now, conns, rooms, rest, wins, calls, sheets, templates, received>>

\* getPermissions answers.
JoinPerm(c) ==
    /\ pc[c].op = "join" /\ pc[c].step = "perm"
    /\ pc' = [pc EXCEPT ![c] =
          [op |-> "join", step |-> "room", doc |-> pc[c].doc,
           permission |-> GetPermissions(pc[c].doc,
                             IF Guest(c) THEN Null ELSE conns[c].userSub,
                             TokenArg(c))]]
    /\ reply' = NoReply /\ emits' = {}
    /\ UNCHANGED <<docs, collab, links, now, conns, rooms, alreadyCounted,
                   rest, wins, calls, sheets, templates, received>>

\* client.join(room), a no-op on a closed socket, then
\* this.io.to(room).emit('presence:joined').
JoinRoom(c) ==
    /\ pc[c].op = "join" /\ pc[c].step = "room"
    /\ LET d == pc[c].doc
           joined == IF Connected(c) THEN [rooms EXCEPT ![d] = @ \cup {c}] ELSE rooms
       IN /\ rooms' = joined
          /\ emits' = {Event("presence:joined", d, c, IoTo(joined, d), 0, Null)}
    /\ pc' = [pc EXCEPT ![c].step = "snap"]
    /\ reply' = NoReply
    /\ UNCHANGED <<docs, collab, links, now, conns, alreadyCounted,
                   rest, wins, calls, sheets, templates, received>>

\* getSnapshot answers and onJoin returns.
JoinSnap(c) ==
    /\ pc[c].op = "join" /\ pc[c].step = "snap"
    /\ LET d == pc[c].doc IN
       reply' = IF ~docs[d].exists
                THEN Reply(c, "join", d, "NotFound", 0, Null, "none")
                ELSE Reply(c, "join", d, "ok", docs[d].version,
                           Some(docs[d].data), pc[c].permission)
    /\ pc' = [pc EXCEPT ![c] = Idle]
    /\ emits' = {}
    /\ UNCHANGED <<docs, collab, links, now, conns, rooms, alreadyCounted,
                   rest, wins, calls, sheets, templates, received>>

\* onLeave: client.leave(room), then this.io.to(room).emit('presence:left').
OnLeave(c, d) ==
    /\ Connected(c) /\ pc[c] = Idle /\ calls < MaxCalls
    /\ calls' = calls + 1
    /\ LET left == [rooms EXCEPT ![d] = @ \ {c}] IN
       /\ rooms' = left
       /\ emits' = IF IsNull(conns[c].userSub) THEN {}
                   ELSE {Event("presence:left", d, c, IoTo(left, d), 0, Null)}
    /\ reply' = Reply(c, "leave", d, "ok", 0, Null, "none")
    /\ UNCHANGED <<docs, collab, links, now, conns, alreadyCounted, pc,
                   rest, wins, sheets, templates, received>>

\* onPresence: nothing for a socket without userSub, otherwise
\* client.to(room).emit('presence'); nothing is returned.
OnPresence(c, d) ==
    /\ Connected(c) /\ calls < MaxCalls
    /\ calls' = calls + 1
    /\ emits' = IF IsNull(conns[c].userSub) THEN {}
                ELSE {Event("presence", d, c, ClientTo(rooms, d, c), 0, Null)}
    /\ reply' = Reply(c, "presence", d, "ok", 0, Null, "none")
    /\ UNCHANGED <<docs, collab, links, now, conns, rooms, alreadyCounted, pc,
                   rest, wins, sheets, templates, received>>

\* The clock advances.
Tick ==
    /\ now < MaxTime
    /\ now' = now + 1
    /\ reply' = NoReply /\ emits' = {}
    /\ UNCHANGED <<docs, collab, links, conns, rooms, alreadyCounted, pc, rest,
                   wins, calls, sheets, templates, received>>

\* ---------------------------------------------------------------- change
\* onChange up to its first await: the 'change' message arrives.
ChangeCall(c, d, base, ops) ==
    /\ Connected(c) /\ pc[c] = Idle /\ calls < MaxCalls
    /\ calls' = calls + 1
    /\ IF IsNull(conns[c].userSub)
       THEN /\ reply' = Reply(c, "change", d, "Unauthorized", 0, Null, "none")
            /\ UNCHANGED pc
       ELSE /\ pc' = [pc EXCEPT ![c] = [op |-> "change", step |-> "auth", doc |-> d,
                                        version |-> base, ops |-> ops]]
            /\ reply' = NoReply
    /\ emits' = {}
    /\ UNCHANGED <<docs, collab, links, now, conns, rooms, alreadyCounted,
                   rest, wins, sheets, templates, received>>

\* A faulty variant: a socket in the room is trusted with the permission
\* its join resolved.
ChangeAuthAsJoined(c) ==
    /\ pc[c].op = "change" /\ pc[c].step = "auth"
    /\ IF c \notin rooms[pc[c].doc]
          /\ EnsureCanEdit(pc[c].doc, conns[c].userSub, TokenArg(c)) # "ok"
       THEN /\ pc' = [pc EXCEPT ![c] = Idle]
            /\ reply' = Reply(c, "change", pc[c].doc, "Forbidden", 0, Null, "none")
       ELSE /\ pc' = [pc EXCEPT ![c].step = "read"]
            /\ reply' = NoReply
    /\ emits' = {}
    /\ UNCHANGED <<docs, collab, links, now, conns, rooms, alreadyCounted,
                   rest, wins, calls, sheets, templates, received>>

\* ensureCanEdit answers.
ChangeAuth(c) ==
    /\ pc[c].op = "change" /\ pc[c].step = "auth"
    /\ IF EnsureCanEdit(pc[c].doc, conns[c].userSub, TokenArg(c)) # "ok"
       THEN /\ pc' = [pc EXCEPT ![c] = Idle]
            /\ reply' = Reply(c, "change", pc[c].doc, "Forbidden", 0, Null, "none")
       ELSE /\ pc' = [pc EXCEPT ![c].step = "read"]
            /\ reply' = NoReply
    /\ emits' = {}
    /\ UNCHANGED <<docs, collab, links, now, conns, rooms, alreadyCounted,
                   rest, wins, calls, sheets, templates, received>>

\* A faulty variant: the conflict is told to the whole room.
ChangeFailedToRoom(c, d, err) ==
    /\ pc' = [pc EXCEPT ![c] = Idle]
    /\ reply' = Reply(c, "change", d, err, 0, Null, "none")
    /\ emits' = IF err = "Conflict"
                THEN {Event("change:error", d, c, IoTo(rooms, d) \cup {c}, 0, Null)}
                ELSE {}

\* The catch of onChange: a ConflictException is told to the sender alone.
ChangeFailed(c, d, err) ==
    /\ pc' = [pc EXCEPT ![c] = Idle]
    /\ reply' = Reply(c, "change", d, err, 0, Null, "none")
    /\ emits' = IF err = "Conflict"
                THEN {Event("change:error", d, c, {c}, 0, Null)} ELSE {}

\* applyOps, first half: the transaction reads the document, compares its
\* version with the caller's and computes nextData.
ChangeRead(c) ==
    /\ pc[c].op = "change" /\ pc[c].step = "read"
    /\ LET d == pc[c].doc IN
       IF ~docs[d].exists THEN ChangeFailed(c, d, "NotFound")
       ELSE IF docs[d].version # pc[c].version THEN ChangeFailed(c, d, "Conflict")
       ELSE /\ pc' = [pc EXCEPT ![c] =
                  [op |-> "change", step |-> "write", doc |-> d,
                   version |-> pc[c].version, ops |-> pc[c].ops,
                   nextData |-> ApplyOpsPure(docs[d].data, pc[c].ops)]]
            /\ reply' = NoReply /\ emits' = {}
    /\ UNCHANGED <<docs, collab, links, now, conns, rooms, alreadyCounted,
                   rest, wins, calls, sheets, templates, received>>

\* A faulty variant: the update's WHERE clause without the version.
AnyVersion(d, version) == docs[d].exists

\* The row UPDATE ... WHERE id = :id AND version = :version affects.
VersionMatches(d, version) == docs[d].exists /\ docs[d].version = version

\* socket.io hands an event to each socket it is sent to, in the order of
\* the emit calls.
Deliver(rcv, to, version) ==
    [p \in Conns |-> IF p \in to THEN Append(rcv[p], version) ELSE rcv[p]]

\* applyOps, second half, and the broadcast in onChange taken together: the
\* conditional update; one affected row commits and onChange broadcasts
\* with client.to(room), none is a conflict.
ChangeWrite(c) ==
    /\ pc[c].op = "change" /\ pc[c].step = "write"
    /\ LET d == pc[c].doc
           nextVersion == pc[c].version + 1
       IN IF VersionMatches(d, pc[c].version)
          THEN /\ docs' = [docs EXCEPT ![d].data = pc[c].nextData,
                                       ![d].version = nextVersion]
               /\ wins' = [wins EXCEPT ![d] = Append(@, pc[c].version)]
               /\ pc' = [pc EXCEPT ![c] = Idle]
               /\ reply' = Reply(c, "change", d, "ok", nextVersion, Null, "none")
               /\ emits' = {Event("change", d, c, ClientTo(rooms, d, c),
                                  nextVersion, Some(pc[c].ops))}
               /\ received' = Deliver(received, ClientTo(rooms, d, c), nextVersion)
          ELSE /\ ChangeFailed(c, d, "Conflict")
               /\ UNCHANGED <<docs, wins, received>>
    /\ UNCHANGED <<collab, links, now, conns, rooms, alreadyCounted, rest, calls,
                   sheets, templates>>

\* applyOps, second half, by itself: the conditional update commits and the
\* transaction's promise is still to resolve in onChange.
ChangeCommit(c) ==
    /\ pc[c].op = "change" /\ pc[c].step = "write"
    /\ LET d == pc[c].doc IN
       IF VersionMatches(d, pc[c].version)
       THEN /\ docs' = [docs EXCEPT ![d].data = pc[c].nextData,
                                    ![d].version = pc[c].version + 1]
            /\ wins' = [wins EXCEPT ![d] = Append(@, pc[c].version)]
            /\ pc' = [pc EXCEPT ![c] = [op |-> "change", step |-> "emit", doc |-> d,
                                        version |-> pc[c].version + 1,
                                        ops |-> pc[c].ops]]
            /\ reply' = NoReply /\ emits' = {}
       ELSE /\ ChangeFailed(c, d, "Conflict")
            /\ UNCHANGED <<docs, wins>>
    /\ UNCHANGED <<collab, links, now, conns, rooms, alreadyCounted, rest, calls,
                   sheets, templates, received>>

\* onChange after await applyOps: client.to(room).emit('change') with the
\* version applyOps returned, then the acknowledgement.
ChangeBroadcast(c) ==
    /\ pc[c].op = "change" /\ pc[c].step = "emit"
    /\ LET d == pc[c].doc IN
       /\ emits' = {Event("change", d, c, ClientTo(rooms, d, c), pc[c].version,
                          Some(pc[c].ops))}
       /\ received' = Deliver(received, ClientTo(rooms, d, c), pc[c].version)
       /\ reply' = Reply(c, "change", d, "ok", pc[c].version, Null, "none")
    /\ pc' = [pc EXCEPT ![c] = Idle]
    /\ UNCHANGED <<docs, collab, links, now, conns, rooms, alreadyCounted, rest,
                   wins, calls, sheets, templates>>

\* ------------------------------------------------------------------ REST
\* A REST request returns.
RestDone(u, op, d, result, version) ==
    /\ rest' = [rest EXCEPT ![u] = Idle]
    /\ reply' = Reply(u, op, d, result, version, Null, "none")

\* DocumentsService.canEdit: the project's owner, or an owner or editor row.
CanEdit(d, u) ==
    /\ docs[d].exists
    /\ \/ OwnerSub(ProjectOf(d)) = u
       \/ collab[<<d, u>>] \in {"owner", "editor"}

\* DocumentsService.canDelete: the project's owner, or an owner row.
CanDelete(d, u) ==
    /\ docs[d].exists
    /\ \/ OwnerSub(ProjectOf(d)) = u
       \/ collab[<<d, u>>] = "owner"

\* ShareLinksService.ensureCanShare: the creator, the project's owner, or an
\* owner or editor row.
CanShare(d, u) ==
    /\ docs[d].exists
    /\ \/ CreatedBy(d) = u
       \/ OwnerSub(ProjectOf(d)) = u
       \/ collab[<<d, u>>] \in {"owner", "editor"}

\* The document a client PUTs over REST.
RestData == [nodes |-> 1, edges |-> 1, title |-> 0]

\* DocumentsService.update up to its write: canEdit answers.
UpdateCheck(u, d, base) ==
    /\ rest[u] = Idle /\ calls < MaxCalls
    /\ calls' = calls + 1
    /\ IF ~CanEdit(d, u)
       THEN RestDone(u, "update", d, "Forbidden", 0)
       ELSE /\ rest' = [rest EXCEPT ![u] = [op |-> "update", step |-> "write",
                                            doc |-> d, version |-> base]]
            /\ reply' = NoReply
    /\ emits' = {}
    /\ UNCHANGED <<docs, collab, links, now, conns, rooms, alreadyCounted, pc, wins,
                   sheets, templates, received>>

\* A faulty variant: the REST update as a plain save, the last writer wins.
UpdateWriteLastWins(u) ==
    /\ rest[u].op = "update" /\ rest[u].step = "write"
    /\ LET d == rest[u].doc IN
       IF docs[d].exists
       THEN /\ docs' = [docs EXCEPT ![d].data = RestData, ![d].version = @ + 1]
            /\ wins' = [wins EXCEPT ![d] = Append(@, rest[u].version)]
            /\ RestDone(u, "update", d, "ok", docs[d].version + 1)
       ELSE /\ RestDone(u, "update", d, "Conflict", 0)
            /\ UNCHANGED <<docs, wins>>
    /\ emits' = {}
    /\ UNCHANGED <<collab, links, now, conns, rooms, alreadyCounted, pc, calls,
                   sheets, templates, received>>

\* DocumentsService.update: UPDATE ... SET data, version = version + 1 WHERE
\* id and version match; no returned row is a conflict.
UpdateWrite(u) ==
    /\ rest[u].op = "update" /\ rest[u].step = "write"
    /\ LET d == rest[u].doc IN
       IF VersionMatches(d, rest[u].version)
       THEN /\ docs' = [docs EXCEPT ![d].data = RestData, ![d].version = @ + 1]
            /\ wins' = [wins EXCEPT ![d] = Append(@, rest[u].version)]
            /\ RestDone(u, "update", d, "ok", docs[d].version + 1)
       ELSE /\ RestDone(u, "update", d, "Conflict", 0)
            /\ UNCHANGED <<docs, wins>>
    /\ emits' = {}
    /\ UNCHANGED <<collab, links, now, conns, rooms, alreadyCounted, pc, calls,
                   sheets, templates, received>>

\* DocumentsService.remove up to its transaction: canDelete answers.
RemoveCheck(u, d) ==
    /\ rest[u] = Idle /\ calls < MaxCalls
    /\ calls' = calls + 1
    /\ IF ~CanDelete(d, u)
       THEN RestDone(u, "remove", d, "Forbidden", 0)
       ELSE /\ rest' = [rest EXCEPT ![u] = [op |-> "remove", step |-> "write",
                                            doc |-> d]]
            /\ reply' = NoReply
    /\ emits' = {}
    /\ UNCHANGED <<docs, collab, links, now, conns, rooms, alreadyCounted, pc, wins,
                   sheets, templates, received>>

\* DocumentsService.remove: the transaction deletes the document and its
\* Collaborator rows; the share links on it go with it (ON DELETE CASCADE).
RemoveWrite(u) ==
    /\ rest[u].op = "remove" /\ rest[u].step = "write"
    /\ LET d == rest[u].doc IN
       IF ~docs[d].exists
       THEN /\ RestDone(u, "remove", d, "NotFound", 0)
            /\ UNCHANGED <<docs, collab, links>>
       ELSE /\ docs' = [docs EXCEPT ![d].exists = FALSE]
            /\ collab' = [k \in Docs \X Users |->
                            IF k[1] = d THEN "none" ELSE collab[k]]
            /\ links' = [s \in Slugs |->
                            IF links[s].documentId = Some(d) THEN NoLink ELSE links[s]]
            /\ RestDone(u, "remove", d, "ok", 0)
    /\ emits' = {}
    /\ UNCHANGED <<now, conns, rooms, alreadyCounted, pc, wins, calls, sheets, templates, received>>

\* ShareLinksService.accept, first half: the transaction reads the link.
AcceptRead(u, s) ==
    /\ rest[u] = Idle /\ calls < MaxCalls
    /\ calls' = calls + 1
    /\ IF ~FoundActive(s) THEN RestDone(u, "accept", s, "NotFound", 0)
       ELSE IF IsExpired(links[s]) THEN RestDone(u, "accept", s, "Forbidden", 0)
       ELSE IF UsesReached(links[s]) THEN RestDone(u, "accept", s, "Forbidden", 0)
       ELSE /\ rest' = [rest EXCEPT ![u] = [op |-> "accept", step |-> "write",
                                            slug |-> s, link |-> links[s]]]
            /\ reply' = NoReply
    /\ emits' = {}
    /\ UNCHANGED <<docs, collab, links, now, conns, rooms, alreadyCounted, pc, wins,
                   sheets, templates, received>>

\* The documents accept upserts a Collaborator row on.
AcceptTargets(l) ==
    IF l.scope = "document" /\ ~IsNull(l.documentId) THEN {Val(l.documentId)}
    ELSE IF l.scope = "project" /\ ~IsNull(l.projectId)
    THEN {d \in Docs : docs[d].exists /\ ProjectOf(d) = Val(l.projectId)}
    ELSE {}

\* An accept that inserts its rows: a row already there violates the unique
\* key and the transaction rolls back.
AcceptWriteInsertOnly(u) ==
    /\ rest[u].op = "accept" /\ rest[u].step = "write"
    /\ LET l == rest[u].link
           s == rest[u].slug
           targets == AcceptTargets(l)
       IN IF \E d \in targets : ~docs[d].exists \/ collab[<<d, u>>] # "none"
          THEN /\ RestDone(u, "accept", s, "Error", 0)
               /\ UNCHANGED <<collab, links>>
          ELSE /\ collab' = [k \in Docs \X Users |->
                               IF k[1] \in targets /\ k[2] = u
                               THEN l.minRole ELSE collab[k]]
               /\ links' = [links EXCEPT ![s].uses =
                               IF links[s].exists THEN @ + 1 ELSE @]
               /\ RestDone(u, "accept", s, "ok", 0)
    /\ emits' = {}
    /\ UNCHANGED <<docs, now, conns, rooms, alreadyCounted, pc, wins, calls,
                   sheets, templates, received>>

\* ShareLinksService.accept, second half: upsert the rows with the link's
\* minRole, then increment uses; an upsert on a deleted document fails on
\* its foreign key and the transaction rolls back.
AcceptWrite(u) ==
    /\ rest[u].op = "accept" /\ rest[u].step = "write"
    /\ LET l == rest[u].link
           s == rest[u].slug
           targets == AcceptTargets(l)
       IN IF \E d \in targets : ~docs[d].exists
          THEN /\ RestDone(u, "accept", s, "Error", 0)
               /\ UNCHANGED <<collab, links>>
          ELSE /\ collab' = [k \in Docs \X Users |->
                               IF k[1] \in targets /\ k[2] = u
                               THEN l.minRole ELSE collab[k]]
               /\ links' = [links EXCEPT ![s].uses =
                               IF links[s].exists THEN @ + 1 ELSE @]
               /\ RestDone(u, "accept", s, "ok", 0)
    /\ emits' = {}
    /\ UNCHANGED <<docs, now, conns, rooms, alreadyCounted, pc, wins, calls,
                   sheets, templates, received>>

\* ShareLinksService.revoke up to its write: the link is read and, for a
\* link with a documentId, ensureCanShare answers.
RevokeCheck(u, s) ==
    /\ rest[u] = Idle /\ calls < MaxCalls
    /\ calls' = calls + 1
    /\ IF ~links[s].exists THEN RestDone(u, "revoke", s, "NotFound", 0)
       ELSE IF ~IsNull(links[s].documentId)
               /\ ~CanShare(Val(links[s].documentId), u)
       THEN RestDone(u, "revoke", s, "Forbidden", 0)
       ELSE /\ rest' = [rest EXCEPT ![u] = [op |-> "revoke", step |-> "write",
                                            slug |-> s]]
            /\ reply' = NoReply
    /\ emits' = {}
    /\ UNCHANGED <<docs, collab, links, now, conns, rooms, alreadyCounted, pc, wins,
                   sheets, templates, received>>

\* ShareLinksService.revoke: repo.update({ id }, { isActive: false }).
RevokeWrite(u) ==
    /\ rest[u].op = "revoke" /\ rest[u].step = "write"
    /\ links' = [links EXCEPT ![rest[u].slug].isActive =
                    IF links[rest[u].slug].exists THEN FALSE ELSE @]
    /\ RestDone(u, "revoke", rest[u].slug, "ok", 0)
    /\ emits' = {}
    /\ UNCHANGED <<docs, collab, now, conns, rooms, alreadyCounted, pc, wins, calls,
                   sheets, templates, received>>

\* ShareLinksService.preview: one read of the link, public.
Preview(s) ==
    /\ calls < MaxCalls
    /\ calls' = calls + 1
    /\ reply' = Reply("anyone", "preview", s,
                      IF ~FoundActive(s) THEN "NotFound"
                      ELSE IF IsExpired(links[s]) THEN "Forbidden"
                      ELSE IF UsesReached(links[s]) THEN "Forbidden"
                      ELSE "ok", 0, Null, "none")
    /\ emits' = {}
    /\ UNCHANGED <<docs, collab, links, now, conns, rooms, alreadyCounted, pc,
                   rest, wins, sheets, templates, received>>

\* The slug randomBytes yields: one no link carries yet.
FreeSlugs == {s \in Slugs : ~links[s].exists}

\* repo.save of the entity create builds; the row's document must exist.
SaveLink(u, l) ==
    IF FreeSlugs = {} \/ (~IsNull(l.documentId) /\ ~docs[Val(l.documentId)].exists)
    THEN /\ RestDone(u, "create", "none", "Error", 0)
         /\ UNCHANGED links
    ELSE \E s \in FreeSlugs :
            /\ links' = [links EXCEPT ![s] = l]
            /\ RestDone(u, "create", s, "ok", 0)

\* ShareLinksService.create: a document-scope request awaits ensureCanShare
\* before it saves, a project-scope request saves at once.
Create(u, scope, target, minRole, maxUses) ==
    /\ rest[u] = Idle /\ calls < MaxCalls
    /\ calls' = calls + 1
    /\ LET l == NewLink(scope, target, minRole, Null, maxUses) IN
       IF scope = "document"
       THEN /\ IF ~CanShare(target, u)
               THEN RestDone(u, "create", "none", "Forbidden", 0)
               ELSE /\ rest' = [rest EXCEPT ![u] =
                                  [op |-> "create", step |-> "write", link |-> l]]
                    /\ reply' = NoReply
            /\ UNCHANGED links
       ELSE SaveLink(u, l)
    /\ emits' = {}
    /\ UNCHANGED <<docs, collab, now, conns, rooms, alreadyCounted, pc, wins,
                   sheets, templates, received>>

\* ShareLinksService.create, after ensureCanShare: repo.save.
CreateWrite(u) ==
    /\ rest[u].op = "create" /\ rest[u].step = "write"
    /\ SaveLink(u, rest[u].link)
    /\ emits' = {}
    /\ UNCHANGED <<docs, collab, now, conns, rooms, alreadyCounted, pc, wins, calls,
                   sheets, templates, received>>

\* The bodies create is called with: scope, projectId and documentId may
\* each be absent.
Dtos ==
    [scope : {Null, Some("document"), Some("project")},
     documentId : {Null} \cup {Some(d) : d \in Docs},
     projectId : {Null, Some("p1")},
     minRole : {"reader", "editor"}]

\* dto.scope ?? 'document'
ScopeOf(dto) == IF IsNull(dto.scope) THEN "document" ELSE Val(dto.scope)

\* A test that looks at the project id only.
MissingProjectOnly(dto) == ScopeOf(dto) = "project" /\ IsNull(dto.projectId)

\* The scope's own target id is absent from the body.
MissingTarget(dto) ==
    \/ ScopeOf(dto) = "project" /\ IsNull(dto.projectId)
    \/ ScopeOf(dto) = "document" /\ IsNull(dto.documentId)

\* The entity create builds: only the scope's own target id is kept.
LinkFromDto(dto) ==
    [exists |-> TRUE, scope |-> ScopeOf(dto),
     documentId |-> IF ScopeOf(dto) = "document" THEN dto.documentId ELSE Null,
     projectId |-> IF ScopeOf(dto) = "project" THEN dto.projectId ELSE Null,
     minRole |-> dto.minRole, expiresAt |-> Null, maxUses |-> Null,
     uses |-> 0, isActive |-> TRUE]

\* ShareLinksService.create from the request body: the scope's target id is
\* required; a document-scope request awaits ensureCanShare before it saves.
CreateDto(u, dto) ==
    /\ rest[u] = Idle /\ calls < MaxCalls
    /\ calls' = calls + 1
    /\ IF MissingTarget(dto)
       THEN /\ RestDone(u, "create", "none", "BadRequest", 0)
            /\ UNCHANGED links
       ELSE IF ScopeOf(dto) = "document" /\ ~IsNull(dto.documentId)
       THEN /\ IF ~CanShare(Val(dto.documentId), u)
               THEN RestDone(u, "create", "none", "Forbidden", 0)
               ELSE /\ rest' = [rest EXCEPT ![u] =
                                  [op |-> "create", step |-> "write",
                                   link |-> LinkFromDto(dto)]]
                    /\ reply' = NoReply
            /\ UNCHANGED links
       ELSE SaveLink(u, LinkFromDto(dto))
    /\ emits' = {}
    /\ UNCHANGED <<docs, collab, now, conns, rooms, alreadyCounted, pc, wins,
                   sheets, templates, received>>

\* ---------------------------------------------------------------- sheets
\* applyPatchWithVersion is called: nodes and edges are arrays or absent.
PatchCall(u, h, baseVersion, nodes, edges) ==
    /\ rest[u] = Idle /\ calls < MaxCalls
    /\ calls' = calls + 1
    /\ rest' = [rest EXCEPT ![u] = [op |-> "patch", step |-> "read", sheet |-> h,
                                    baseVersion |-> baseVersion,
                                    nodes |-> nodes, edges |-> edges]]
    /\ reply' = NoReply /\ emits' = {}
    /\ UNCHANGED <<docs, collab, links, now, conns, rooms, alreadyCounted, pc,
                   wins, sheets, templates, received>>

\* A comparison that also turns away a client at the stored version.
OutdatedOrEqual(baseVersion, version) == baseVersion <= version

\* The client is outdated: baseVersion < sheet.version.
Outdated(baseVersion, version) == baseVersion < version

\* applyPatchWithVersion reads the sheet: an outdated client is answered
\* with the stored state, any other goes on to write the merged state under
\* the version read plus one.
PatchRead(u) ==
    /\ rest[u].op = "patch" /\ rest[u].step = "read"
    /\ LET h == rest[u].sheet
           sheet == sheets[h]
       IN IF ~sheet.exists THEN RestDone(u, "patch", h, "NotFound", 0)
          ELSE IF Outdated(rest[u].baseVersion, sheet.version)
          THEN /\ rest' = [rest EXCEPT ![u] = Idle]
               /\ reply' = Reply(u, "patch", h, "ok", sheet.version,
                                 Some(sheet.data), "none")
          ELSE /\ rest' = [rest EXCEPT ![u] =
                  [op |-> "patch", step |-> "write", sheet |-> h,
                   version |-> sheet.version,
                   next |-> [nodes |-> IF IsNull(rest[u].nodes)
                                       THEN sheet.data.nodes ELSE Val(rest[u].nodes),
                             edges |-> IF IsNull(rest[u].edges)
                                       THEN sheet.data.edges ELSE Val(rest[u].edges)],
                   newVersion |-> sheet.version + 1]]
               /\ reply' = NoReply
    /\ emits' = {}
    /\ UNCHANGED <<docs, collab, links, now, conns, rooms, alreadyCounted, pc,
                   wins, calls, sheets, templates, received>>

\* A write that compares and swaps: it commits only on the version read.
PatchWriteConditional(u) ==
    /\ rest[u].op = "patch" /\ rest[u].step = "write"
    /\ LET h == rest[u].sheet IN
       IF sheets[h].exists /\ sheets[h].version = rest[u].version
       THEN /\ sheets' = [sheets EXCEPT ![h].data = rest[u].next,
                                        ![h].version = rest[u].newVersion]
            /\ rest' = [rest EXCEPT ![u] = Idle]
            /\ reply' = Reply(u, "patch", h, "ok", rest[u].newVersion,
                              Some(rest[u].next), "none")
       ELSE /\ sheets' = sheets
            /\ RestDone(u, "patch", h, "Conflict", 0)
    /\ emits' = {}
    /\ UNCHANGED <<docs, collab, links, now, conns, rooms, alreadyCounted, pc,
                   wins, calls, templates, received>>

\* sheets.update({ id }, { data: next, version: newVersion }) and the return.
PatchWrite(u) ==
    /\ rest[u].op = "patch" /\ rest[u].step = "write"
    /\ LET h == rest[u].sheet IN
       /\ sheets' = [sheets EXCEPT ![h] =
                        IF sheets[h].exists
                        THEN [@ EXCEPT !.data = rest[u].next,
                                       !.version = rest[u].newVersion]
                        ELSE @]
       /\ rest' = [rest EXCEPT ![u] = Idle]
       /\ reply' = Reply(u, "patch", h, "ok", rest[u].newVersion,
                         Some(rest[u].next), "none")
    /\ emits' = {}
    /\ UNCHANGED <<docs, collab, links, now, conns, rooms, alreadyCounted, pc,
                   wins, calls, templates, received>>

\* ------------------------------------------------- sheets over REST
\* SheetsService.canEdit: the document's creator, the project's owner, or an
\* owner or editor row.
SheetsCanEdit(d, u) ==
    /\ docs[d].exists
    /\ \/ CreatedBy(d) = u
       \/ OwnerSub(ProjectOf(d)) = u
       \/ collab[<<d, u>>] \in {"owner", "editor"}

\* sheets.count({ where: { documentId, isActive: true } })
CountActiveSheets(d) ==
    Cardinality({h \in SheetIds : /\ sheets[h].exists /\ sheets[h].isActive
                                  /\ sheets[h].documentId = d})

\* repo.update(sheetId, { isActive: false }): the version column, not being
\* set, is incremented with it.
Deactivate(h) ==
    [sheets EXCEPT ![h] = IF @.exists
                          THEN [@ EXCEPT !.isActive = FALSE, !.version = @ + 1]
                          ELSE @]

\* SheetsService.delete: findSheetWithRelations.
SheetDeleteFind(u, h) ==
    /\ rest[u] = Idle /\ calls < MaxCalls
    /\ calls' = calls + 1
    /\ IF ~sheets[h].exists THEN RestDone(u, "sheet.delete", h, "NotFound", 0)
       ELSE /\ rest' = [rest EXCEPT ![u] =
                          [op |-> "sheet.delete", step |-> "auth", sheet |-> h,
                           documentId |-> sheets[h].documentId]]
            /\ reply' = NoReply
    /\ emits' = {}
    /\ UNCHANGED <<docs, collab, links, now, conns, rooms, alreadyCounted, pc,
                   wins, sheets, templates, received>>

\* SheetsService.delete: canEdit.
SheetDeleteAuth(u) ==
    /\ rest[u].op = "sheet.delete" /\ rest[u].step = "auth"
    /\ IF ~SheetsCanEdit(rest[u].documentId, u)
       THEN RestDone(u, "sheet.delete", rest[u].sheet, "Forbidden", 0)
       ELSE /\ rest' = [rest EXCEPT ![u].step = "count"]
            /\ reply' = NoReply
    /\ emits' = {}
    /\ UNCHANGED <<docs, collab, links, now, conns, rooms, alreadyCounted, pc,
                   wins, calls, sheets, templates, received>>

\* SheetsService.delete: countActiveSheets; the last sheet is refused.
SheetDeleteCount(u) ==
    /\ rest[u].op = "sheet.delete" /\ rest[u].step = "count"
    /\ IF CountActiveSheets(rest[u].documentId) <= 1
       THEN RestDone(u, "sheet.delete", rest[u].sheet, "BadRequest", 0)
       ELSE /\ rest' = [rest EXCEPT ![u].step = "write"]
            /\ reply' = NoReply
    /\ emits' = {}
    /\ UNCHANGED <<docs, collab, links, now, conns, rooms, alreadyCounted, pc,
                   wins, calls, sheets, templates, received>>

\* SheetsService.delete: sheets.update(sheetId, { isActive: false }).
SheetDeleteWrite(u) ==
    /\ rest[u].op = "sheet.delete" /\ rest[u].step = "write"
    /\ sheets' = Deactivate(rest[u].sheet)
    /\ RestDone(u, "sheet.delete", rest[u].sheet, "ok", 0)
    /\ emits' = {}
    /\ UNCHANGED <<docs, collab, links, now, conns, rooms, alreadyCounted, pc,
                   wins, calls, templates, received>>

\* ------------------------------------------- sheets over a shared link
\* ShareLinksService.getByToken: the link stored under the token, if any.
GetByToken(token) == links[token]

\* The permission a link handed to the sheets service carries.
LinkPermission(l) == IF l.minRole = "editor" THEN "edit" ELSE "read"

\* SharedSheetsController.getLink and the caller's minRole test: what the
\* request is refused with, or "ok".
GetLink(token) ==
    LET link == GetByToken(token) IN
    IF ~link.exists THEN "BadRequest"
    ELSE IF ~link.isActive THEN "BadRequest"
    ELSE IF IsExpired(link) THEN "BadRequest"
    ELSE IF UsesReached(link) THEN "BadRequest"
    ELSE IF link.minRole # "editor" THEN "BadRequest"
    ELSE "ok"

\* deleteShared: getLink and the minRole test; client u holds the token.
SharedDeleteLink(u, token, h) ==
    /\ rest[u] = Idle /\ calls < MaxCalls
    /\ calls' = calls + 1
    /\ IF GetLink(token) # "ok"
       THEN RestDone(u, "shared.delete", h, GetLink(token), 0)
       ELSE /\ rest' = [rest EXCEPT ![u] =
                          [op |-> "shared.delete", step |-> "find", sheet |-> h,
                           link |-> GetByToken(token)]]
            /\ reply' = NoReply
    /\ emits' = {}
    /\ UNCHANGED <<docs, collab, links, now, conns, rooms, alreadyCounted, pc,
                   wins, sheets, templates, received>>

\* deleteViaSharedLink: findSheetWithDocument and the tests on the link; an
\* inactive sheet returns at once.
SharedDeleteFind(u) ==
    /\ rest[u].op = "shared.delete" /\ rest[u].step = "find"
    /\ LET h == rest[u].sheet
           l == rest[u].link
       IN IF ~sheets[h].exists THEN RestDone(u, "shared.delete", h, "NotFound", 0)
          ELSE IF ~sheets[h].isActive THEN RestDone(u, "shared.delete", h, "ok", 0)
          ELSE IF IsNull(l.documentId)
          THEN RestDone(u, "shared.delete", h, "BadRequest", 0)
          ELSE IF Val(l.documentId) # sheets[h].documentId
          THEN RestDone(u, "shared.delete", h, "Forbidden", 0)
          ELSE IF LinkPermission(l) # "edit"
          THEN RestDone(u, "shared.delete", h, "Forbidden", 0)
          ELSE /\ rest' = [rest EXCEPT ![u] =
                             [op |-> "shared.delete", step |-> "count", sheet |-> h,
                              documentId |-> sheets[h].documentId]]
               /\ reply' = NoReply
    /\ emits' = {}
    /\ UNCHANGED <<docs, collab, links, now, conns, rooms, alreadyCounted, pc,
                   wins, calls, sheets, templates, received>>

\* deleteViaSharedLink: countActiveSheets; the last sheet is refused.
SharedDeleteCount(u) ==
    /\ rest[u].op = "shared.delete" /\ rest[u].step = "count"
    /\ IF CountActiveSheets(rest[u].documentId) <= 1
       THEN RestDone(u, "shared.delete", rest[u].sheet, "BadRequest", 0)
       ELSE /\ rest' = [rest EXCEPT ![u].step = "write"]
            /\ reply' = NoReply
    /\ emits' = {}
    /\ UNCHANGED <<docs, collab, links, now, conns, rooms, alreadyCounted, pc,
                   wins, calls, sheets, templates, received>>

\* deleteViaSharedLink: the transaction's update of isActive.
SharedDeleteWrite(u) ==
    /\ rest[u].op = "shared.delete" /\ rest[u].step = "write"
    /\ sheets' = Deactivate(rest[u].sheet)
    /\ RestDone(u, "shared.delete", rest[u].sheet,
                IF sheets[rest[u].sheet].exists THEN "ok" ELSE "BadRequest", 0)
    /\ emits' = {}
    /\ UNCHANGED <<docs, collab, links, now, conns, rooms, alreadyCounted, pc,
                   wins, calls, templates, received>>

\* updateShared: getLink and the minRole test; the documentId is the one in
\* the request's path.
SharedUpdateLink(u, token, d, h, data) ==
    /\ rest[u] = Idle /\ calls < MaxCalls
    /\ calls' = calls + 1
    /\ IF GetLink(token) # "ok"
       THEN RestDone(u, "shared.update", h, GetLink(token), 0)
       ELSE /\ rest' = [rest EXCEPT ![u] =
                          [op |-> "shared.update", step |-> "find", sheet |-> h,
                           token |-> token, documentId |-> d, data |-> data]]
            /\ reply' = NoReply
    /\ emits' = {}
    /\ UNCHANGED <<docs, collab, links, now, conns, rooms, alreadyCounted, pc,
                   wins, sheets, templates, received>>

\* The sheet updateViaSharedLink looks for: { id: sheetId, documentId }.
SheetFound(h, d) == sheets[h].exists /\ sheets[h].documentId = d

\* updateViaSharedLink: findOne({ id: sheetId, documentId }).
SharedUpdateFind(u) ==
    /\ rest[u].op = "shared.update" /\ rest[u].step = "find"
    /\ IF ~SheetFound(rest[u].sheet, rest[u].documentId)
       THEN RestDone(u, "shared.update", rest[u].sheet, "NotFound", 0)
       ELSE /\ rest' = [rest EXCEPT ![u].step = "write"]
            /\ reply' = NoReply
    /\ emits' = {}
    /\ UNCHANGED <<docs, collab, links, now, conns, rooms, alreadyCounted, pc,
                   wins, calls, sheets, templates, received>>

\* updateViaSharedLink: sheets.update(sheetId, updateData), which increments
\* the version column, and the sheet read back.
SharedUpdateWrite(u) ==
    /\ rest[u].op = "shared.update" /\ rest[u].step = "write"
    /\ LET h == rest[u].sheet
           row == IF sheets[h].exists
                  THEN [sheets[h] EXCEPT !.data = rest[u].data, !.version = @ + 1]
                  ELSE sheets[h]
       IN /\ sheets' = [sheets EXCEPT ![h] = row]
          /\ rest' = [rest EXCEPT ![u] = Idle]
          /\ reply' = Reply(u, "shared.update", h,
                            IF row.exists THEN "ok" ELSE "NotFound",
                            row.version, Some(row.data), "none")
    /\ emits' = {}
    /\ UNCHANGED <<docs, collab, links, now, conns, rooms, alreadyCounted, pc,
                   wins, calls, templates, received>>

\* ------------------------------------------------------------- templates
\* TemplatesService.create: repository.save of a new row.
TemplateCreate(u, t, title, data) ==
    /\ calls < MaxCalls /\ ~templates[t].exists
    /\ calls' = calls + 1
    /\ templates' = [templates EXCEPT ![t] = NewTemplate(title, data)]
    /\ reply' = Reply(u, "template.create", t, "ok", 1, Some(data), "none")
    /\ emits' = {}
    /\ UNCHANGED <<docs, collab, links, now, conns, rooms, alreadyCounted, pc, rest,
                   wins, sheets, received>>

\* A WHERE clause on the id alone.
RowExists(row, version) == row.exists

\* The WHERE clause of update: template_id = :id AND "version" = :version.
RowMatches(row, version) == row.exists /\ row.version = version

\* TemplatesService.update: one UPDATE ... SET title, data, version =
\* "version" + 1 WHERE id and version match RETURNING *; a title or data
\* left out of the DTO is not set; no returned row is a Conflict.
TemplateUpdate(u, t, version, title, data) ==
    /\ calls < MaxCalls
    /\ calls' = calls + 1
    /\ IF RowMatches(templates[t], version)
       THEN LET row == [templates[t] EXCEPT
                           !.title = IF IsNull(title) THEN @ ELSE Val(title),
                           !.data = IF IsNull(data) THEN @ ELSE Val(data),
                           !.version = @ + 1]
            IN /\ templates' = [templates EXCEPT ![t] = row]
               /\ reply' = Reply(u, "template.update", t, "ok", row.version,
                                 Some(row.data), "none")
       ELSE /\ templates' = templates
            /\ reply' = Reply(u, "template.update", t, "Conflict", 0, Null, "none")
    /\ emits' = {}
    /\ UNCHANGED <<docs, collab, links, now, conns, rooms, alreadyCounted, pc, rest,
                   wins, sheets, received>>

\* TemplatesService.toggleArchive: one UPDATE ... SET is_archived WHERE id;
\* the version column, not being set, is incremented by the query builder.
ToggleArchive(u, t, isArchived) ==
    /\ calls < MaxCalls
    /\ calls' = calls + 1
    /\ IF templates[t].exists
       THEN /\ templates' = [templates EXCEPT ![t].isArchived = isArchived,
                                              ![t].version = @ + 1]
            /\ reply' = Reply(u, "template.archive", t, "ok",
                              templates[t].version + 1, Null, "none")
       ELSE /\ templates' = templates
            /\ reply' = Reply(u, "template.archive", t, "NotFound", 0, Null, "none")
    /\ emits' = {}
    /\ UNCHANGED <<docs, collab, links, now, conns, rooms, alreadyCounted, pc, rest,
                   wins, sheets, received>>

\* TemplatesService.remove: repository.delete(id).
TemplateRemove(u, t) ==
    /\ calls < MaxCalls
    /\ calls' = calls + 1
    /\ templates' = [templates EXCEPT ![t] = NoTemplate]
    /\ reply' = Reply(u, "template.remove", t,
                      IF templates[t].exists THEN "ok" ELSE "NotFound", 0, Null, "none")
    /\ emits' = {}
    /\ UNCHANGED <<docs, collab, links, now, conns, rooms, alreadyCounted, pc, rest,
                   wins, sheets, received>>

\* ------------------------------------------------------- specifications
NextJoin ==
    \/ \E c \in Conns : HandleDisconnect(c)
    \/ \E c \in Conns, d \in Docs : JoinCall(c, d)
    \/ \E c \in Conns : JoinAuth(c)
    \/ \E c \in Conns : JoinIncrRead(c)
    \/ \E c \in Conns : JoinIncrWrite(c)
    \/ \E c \in Conns : JoinPerm(c)
    \/ \E c \in Conns : JoinRoom(c)
    \/ \E c \in Conns : JoinSnap(c)
    \/ \E c \in Conns, d \in Docs : OnLeave(c, d)
    \/ Tick

SpecJoin == InitJoin /\ [][NextJoin]_vars
\* The sockets of InitJoin later on, c2 and c3 having joined d1: the guest
\* holds the editor link s1, which expires, or the reader link s2, and its
\* join counted one use of that link.
InitJoined ==
    /\ \E r \in {"editor", "reader"} : InitRows(r)
    /\ \E g \in Slugs :
          /\ conns = [c \in Conns |->
                        IF c = "c1" THEN UserConn("u1")
                        ELSE IF c = "c2" THEN UserConn("u2") ELSE GuestConn(g)]
          /\ links = [s \in Slugs |->
                        [(IF s = "s1"
                          THEN NewLink("document", "d1", "editor", Some(0), Null)
                          ELSE NewLink("document", "d1", "reader", Null, Null))
                         EXCEPT !.uses = IF s = g THEN 1 ELSE 0]]
          /\ alreadyCounted = {g}
    /\ rooms = [d \in Docs |-> IF d = "d1" THEN {"c2", "c3"} ELSE {}]
    /\ now = 0
    /\ pc = [c \in Conns |-> Idle]
    /\ rest = [u \in Users |-> Idle]
    /\ reply = NoReply
    /\ emits = {}
    /\ wins = [d \in Docs |-> <<>>]
    /\ calls = 0
    /\ templates = [t \in TemplateIds |-> NoTemplate]
    /\ received = [c \in Conns |-> <<>>]
    /\ sheets = [h \in SheetIds |-> SheetAt(1)]

Next ==
    \/ \E c \in Conns, base \in 1..MaxVersion, ops \in OpsChoices :
          ChangeCall(c, "d1", base, ops)
    \/ \E c \in Conns : ChangeAuth(c)
    \/ \E c \in Conns : ChangeRead(c)
    \/ \E c \in Conns : ChangeWrite(c)
    \/ \E u \in Users, base \in 1..MaxVersion : UpdateCheck(u, "d1", base)
    \/ \E u \in Users : UpdateWrite(u)
    \/ \E u \in Users : RemoveCheck(u, "d1")
    \/ \E u \in Users : RemoveWrite(u)
    \/ \E s \in Slugs : AcceptRead("u2", s)
    \/ \E u \in Users : AcceptWrite(u)
    \/ \E u \in Users, s \in Slugs : RevokeCheck(u, s)
    \/ \E u \in Users : RevokeWrite(u)
    \/ Tick

Spec == InitJoined /\ [][Next]_vars

\* Share links a sharer has created under slug s1.
LinkChoicesLife ==
    { NewLink("document", "d1", "reader", Null, Some(1)),
      NewLink("document", "d1", "editor", Null, Some(0)),
      NewLink("document", "d1", "editor", Some(0), Null),
      NewLink("project", "p1", "reader", Null, Null) }

\* The share-link life cycle: slug s1 is issued, slug s2 is free; the
\* sockets c2 and c3 are guests that both hold s1.
InitLife ==
    /\ \E r \in {"none", "editor"} : InitRows(r)
    /\ \E l \in LinkChoicesLife :
          links = [s \in Slugs |-> IF s = "s1" THEN l ELSE NoLink]
    /\ conns = [c \in Conns |-> IF c = "c1" THEN UserConn("u1") ELSE GuestConn("s1")]
    /\ InitQuiet

NextLife ==
    \/ \E c \in {"c2", "c3"} : JoinCall(c, "d1")
    \/ \E c \in Conns : JoinAuth(c)
    \/ \E c \in Conns : JoinIncrRead(c)
    \/ \E c \in Conns : JoinIncrWrite(c)
    \/ \E c \in Conns : JoinPerm(c)
    \/ \E c \in Conns : JoinRoom(c)
    \/ \E c \in Conns : JoinSnap(c)
    \/ \E s \in Slugs : Preview(s)
    \/ \E u \in Users, s \in Slugs : AcceptRead(u, s)
    \/ \E u \in Users : AcceptWrite(u)
    \/ \E u \in Users, s \in Slugs : RevokeCheck(u, s)
    \/ \E u \in Users : RevokeWrite(u)
    \/ \E u \in Users : Create(u, "document", "d1", "reader", Null)
    \/ \E u \in Users : Create(u, "project", "p1", "editor", Some(1))
    \/ \E u \in Users : CreateWrite(u)
    \/ Tick

SpecLife == InitLife /\ [][NextLife]_vars

\* Sheets h1 and h2 of d1, h1 somewhere in its history; u2 is an editor of
\* d1 or has no row on it.
InitSheet ==
    /\ \E r \in {"none", "editor"} : InitRows(r)
    /\ links = [s \in Slugs |-> NoLink]
    /\ conns = [c \in Conns |-> NoConn]
    /\ now = 0
    /\ rooms = [d \in Docs |-> {}]
    /\ alreadyCounted = {}
    /\ pc = [c \in Conns |-> Idle]
    /\ rest = [u \in Users |-> Idle]
    /\ reply = NoReply
    /\ emits = {}
    /\ wins = [d \in Docs |-> <<>>]
    /\ calls = 0
    /\ templates = [t \in TemplateIds |-> NoTemplate]
    /\ received = [c \in Conns |-> <<>>]
    /\ \E v \in 1..MaxVersion :
          sheets = [h \in SheetIds |-> IF h = "h1" THEN SheetAt(v) ELSE SheetAt(1)]

NextSheet ==
    \/ \E u \in Users, h \in SheetIds, baseVersion \in 0..MaxVersion,
          nodes \in {Null, Some(1)}, edges \in {Null, Some(2)} :
          PatchCall(u, h, baseVersion, nodes, edges)
    \/ \E u \in Users : PatchRead(u)
    \/ \E u \in Users : PatchWrite(u)

SpecSheet == InitSheet /\ [][NextSheet]_vars

\* Sockets connect, are verified, call join and change on d1, and close.
NextConn ==
    \/ \E c \in Conns : HandleConnection(c)
    \/ \E c \in Conns : HandleConnectionVerified(c)
    \/ \E c \in Conns : HandleDisconnect(c)
    \/ \E c \in Conns : JoinCall(c, "d1")
    \/ \E c \in Conns : JoinAuth(c)
    \/ \E c \in Conns : JoinIncrRead(c)
    \/ \E c \in Conns : JoinIncrWrite(c)
    \/ \E c \in Conns : JoinPerm(c)
    \/ \E c \in Conns : JoinRoom(c)
    \/ \E c \in Conns : JoinSnap(c)
    \/ \E c \in Conns : ChangeCall(c, "d1", 1, Ops(Null, Some(1), Null, Some(1)))
    \/ \E c \in Conns : ChangeAuth(c)
    \/ \E c \in Conns : ChangeRead(c)
    \/ \E c \in Conns : ChangeWrite(c)

SpecConn == Init /\ [][NextConn]_vars

\* Template t1 exists somewhere in its history, t2 does not exist yet.
InitTemplate ==
    /\ InitRows("editor")
    /\ links = [s \in Slugs |-> NoLink]
    /\ conns = [c \in Conns |-> NoConn]
    /\ now = 0
    /\ rooms = [d \in Docs |-> {}]
    /\ alreadyCounted = {}
    /\ pc = [c \in Conns |-> Idle]
    /\ rest = [u \in Users |-> Idle]
    /\ reply = NoReply
    /\ emits = {}
    /\ wins = [d \in Docs |-> <<>>]
    /\ calls = 0
    /\ sheets = [h \in SheetIds |-> SheetAt(1)]
    /\ received = [c \in Conns |-> <<>>]
    /\ \E v \in 1..MaxVersion :
          templates = [t \in TemplateIds |->
                          IF t = "t1" THEN [NewTemplate(0, 0) EXCEPT !.version = v]
                          ELSE NoTemplate]

NextTemplate ==
    \/ \E u \in Users, t \in TemplateIds : TemplateCreate(u, t, 0, 0)
    \/ \E u \in Users, t \in TemplateIds, version \in 0..(MaxVersion + 1),
          title \in {Null, Some(1)}, data \in {Null, Some(1)} :
          TemplateUpdate(u, t, version, title, data)
    \/ \E u \in Users, t \in TemplateIds, b \in BOOLEAN : ToggleArchive(u, t, b)
    \/ \E u \in Users, t \in TemplateIds : TemplateRemove(u, t)

SpecTemplate == InitTemplate /\ [][NextTemplate]_vars

\* The sockets of InitJoin join and leave rooms and send presence messages.
NextPresence ==
    \/ \E c \in Conns, d \in Docs : JoinCall(c, d)
    \/ \E c \in Conns : JoinAuth(c)
    \/ \E c \in Conns : JoinIncrRead(c)
    \/ \E c \in Conns : JoinIncrWrite(c)
    \/ \E c \in Conns : JoinPerm(c)
    \/ \E c \in Conns : JoinRoom(c)
    \/ \E c \in Conns : JoinSnap(c)
    \/ \E c \in Conns, d \in Docs : OnPresence(c, d)
    \/ \E c \in Conns, d \in Docs : OnLeave(c, d)

SpecPresence == InitJoin /\ [][NextPresence]_vars

\* The sockets of InitJoined send changes to d1; a commit and its broadcast
\* are separate steps.
NextOrder ==
    \/ \E c \in Conns, base \in 1..MaxVersion :
          ChangeCall(c, "d1", base, Ops(Null, Some(1), Null, Some(1)))
    \/ \E c \in Conns : ChangeAuth(c)
    \/ \E c \in Conns : ChangeRead(c)
    \/ \E c \in Conns : ChangeCommit(c)
    \/ \E c \in Conns : ChangeBroadcast(c)

SpecOrder == InitJoined /\ [][NextOrder]_vars

\* Sheet h1 belongs to d1, sheet h2 to d1 or d2; s1 is an editor or reader
\* link on d1 or an editor link on project p1; u2 is an editor of d1 or has
\* no row and acts as the client holding the token.
InitShared ==
    /\ \E r \in {"none", "editor"} : InitRows(r)
    /\ \E l \in { NewLink("document", "d1", "editor", Null, Null),
                  NewLink("document", "d1", "reader", Null, Null),
                  NewLink("project", "p1", "editor", Null, Null) } :
          links = [s \in Slugs |-> IF s = "s1" THEN l ELSE NoLink]
    /\ conns = [c \in Conns |-> NoConn]
    /\ now = 0
    /\ rooms = [d \in Docs |-> {}]
    /\ alreadyCounted = {}
    /\ pc = [c \in Conns |-> Idle]
    /\ rest = [u \in Users |-> Idle]
    /\ reply = NoReply
    /\ emits = {}
    /\ wins = [d \in Docs |-> <<>>]
    /\ calls = 0
    /\ templates = [t \in TemplateIds |-> NoTemplate]
    /\ received = [c \in Conns |-> <<>>]
    /\ \E d \in Docs :
          sheets = [h \in SheetIds |->
                       IF h = "h1" THEN SheetAt(1)
                       ELSE [SheetAt(1) EXCEPT !.documentId = d]]

NextShared ==
    \/ \E u \in Users, h \in SheetIds : SheetDeleteFind(u, h)
    \/ \E u \in Users : SheetDeleteAuth(u)
    \/ \E u \in Users : SheetDeleteCount(u)
    \/ \E u \in Users : SheetDeleteWrite(u)
    \/ \E u \in Users, s \in Slugs, h \in SheetIds : SharedDeleteLink(u, s, h)
    \/ \E u \in Users : SharedDeleteFind(u)
    \/ \E u \in Users : SharedDeleteCount(u)
    \/ \E u \in Users : SharedDeleteWrite(u)
    \/ \E u \in Users, s \in Slugs, d \in Docs, h \in SheetIds :
          SharedUpdateLink(u, s, d, h, [nodes |-> 1, edges |-> 1])
    \/ \E u \in Users : SharedUpdateFind(u)
    \/ \E u \in Users : SharedUpdateWrite(u)

SpecShared == InitShared /\ [][NextShared]_vars

\* No link has been created yet; u2 is an editor of d1 or has no row on it.
InitCreate ==
    /\ \E r \in {"none", "editor"} : InitRows(r)
    /\ links = [s \in Slugs |-> NoLink]
    /\ conns = [c \in Conns |-> NoConn]
    /\ InitQuiet

NextCreate ==
    \/ \E u \in Users, dto \in Dtos : CreateDto(u, dto)
    \/ \E u \in Users : CreateWrite(u)

SpecCreate == InitCreate /\ [][NextCreate]_vars

\* The guest socket c3 is the only holder of the editor link s1 on d1, which
\* has no expiry and no use counted yet; maxUses is absent, 1 or 2.
InitGuest ==
    /\ \E r \in {"none", "editor"} : InitRows(r)
    /\ \E maxUses \in {Null, Some(1), Some(2)} :
          links = [s \in Slugs |->
                     IF s = "s1"
                     THEN NewLink("document", "d1", "editor", Null, maxUses)
                     ELSE NoLink]
    /\ conns = [c \in Conns |->
                  IF c = "c1" THEN UserConn("u1")
                  ELSE IF c = "c2" THEN UserConn("u2") ELSE GuestConn("s1")]
    /\ InitQuiet

NextGuest ==
    \/ \E c \in {"c2", "c3"} : JoinCall(c, "d1")
    \/ \E c \in Conns : JoinAuth(c)
    \/ \E c \in Conns : JoinIncrRead(c)
    \/ \E c \in Conns : JoinIncrWrite(c)
    \/ \E c \in Conns : JoinPerm(c)
    \/ \E c \in Conns : JoinRoom(c)
    \/ \E c \in Conns : JoinSnap(c)
    \/ \E c \in {"c2", "c3"} : OnLeave(c, "d1")
    \/ \E c \in {"c2", "c3"}, base \in 1..MaxVersion :
          ChangeCall(c, "d1", base, Ops(Null, Some(1), Null, Some(1)))
    \/ \E c \in Conns : ChangeAuth(c)
    \/ \E c \in Conns : ChangeRead(c)
    \/ \E c \in Conns : ChangeWrite(c)

SpecGuest == InitGuest /\ [][NextGuest]_vars

\* ============================================================== claims
\* The access levels the specification's Permission Resolver assigns.
RoleLevel(role) ==
    CASE role \in {"owner", "editor"} -> "edit"
      [] role = "reader" -> "read"
      [] OTHER -> "none"

\* The specification's derived predicates of a share link.
LinkExpired(l) == ~IsNull(l.expiresAt) /\ now > Val(l.expiresAt)
LinkExhausted(l) == ~IsNull(l.maxUses) /\ l.uses >= Val(l.maxUses)
LinkCovers(l, d) ==
    \/ l.scope = "document" /\ l.documentId = Some(d)
    \/ l.scope = "project" /\ l.projectId = Some(ProjectOf(d))

\* The level the specification's resolver yields for socket c on document d.
Resolved(c, d) ==
    IF Guest(c)
    THEN LET l == links[Val(conns[c].sharedToken)] IN
         IF ~l.exists \/ ~l.isActive \/ LinkExpired(l) \/ LinkExhausted(l)
            \/ ~LinkCovers(l, d)
         THEN "none"
         ELSE IF l.minRole = "editor" THEN "edit" ELSE "read"
    ELSE IF IsNull(conns[c].userSub) THEN "none"
    ELSE RoleLevel(collab[<<d, Val(conns[c].userSub)>>])

\* Socket c's handler takes this step.
Steps(c) == pc'[c] # pc[c]
At(c, op, step) == pc[c].op = op /\ pc[c].step = step

\* A change event among those a step sends.
ChangeEvents(es) == {e \in es : e.type = "change"}
\* No base version occurs twice in a document's commits.
NoDuplicate(seq) == \A i, j \in 1..Len(seq) : seq[i] = seq[j] => i = j

\* C1: applyOps on a stored version equal to baseVersion succeeds, returns
\* baseVersion + 1 and stores the ops applied to the previous data under
\* version baseVersion + 1; on any other stored version it fails with
\* Conflict and leaves data and version as they were.
C1_ApplyOpsComparesVersion ==
    [][\A c \in Conns :
         (pc[c].op = "change" /\ pc[c].step \in {"read", "write"} /\ Steps(c)
            /\ docs[pc[c].doc].exists) =>
             LET d == pc[c].doc
                 base == pc[c].version
             IN IF docs[d].version = base
                THEN IF pc[c].step = "read"
                     THEN pc'[c].op = "change" /\ pc'[c].step = "write" /\ docs' = docs
                     ELSE /\ reply'.who = c /\ reply'.result = "ok"
                          /\ reply'.version = base + 1
                          /\ docs' = [docs EXCEPT
                                 ![d].version = base + 1,
                                 ![d].data = ApplyOpsPure(docs[d].data, pc[c].ops)]
                ELSE /\ reply'.who = c /\ reply'.result = "Conflict"
                     /\ pc'[c] = Idle /\ docs' = docs]_vars

\* C1 happens: a change committed on version 1 and a later one met a conflict.
C1_Witness ==
    /\ wins["d1"] = <<1>> /\ docs["d1"].version = 2
    /\ reply.op = "change" /\ reply.result = "Conflict"
    /\ \E c \in Conns : c # reply.who /\ pc[c] = Idle /\ rest = [u \in Users |-> Idle]

\* C2: however applyOps and the REST update on one document interleave, no
\* base version is committed twice, a writer that meets a conflict writes
\* nothing, and the stored version never decreases.
C2_OneWriterPerBaseVersion ==
    [][\A d \in Docs :
         /\ NoDuplicate(wins'[d])
         /\ docs'[d].version >= docs[d].version
         /\ (reply'.op # "none" /\ reply'.result = "Conflict") =>
                docs' = docs /\ wins' = wins
         /\ (docs'[d] # docs[d] /\ docs'[d].exists) =>
                /\ Len(wins'[d]) = Len(wins[d]) + 1
                /\ wins'[d][Len(wins'[d])] = docs[d].version
                /\ docs'[d].version = docs[d].version + 1]_vars

\* C2 happens: the REST update has committed on version 1 between the read
\* and the conditional write of a socket's applyOps on version 1.
C2_Witness ==
    /\ wins["d1"] = <<1>> /\ docs["d1"].version = 2 /\ docs["d1"].data = RestData
    /\ reply.op = "update" /\ reply.result = "ok"
    /\ \E c \in Conns : /\ pc[c].op = "change" /\ pc[c].step = "write"
                        /\ pc[c].doc = "d1" /\ pc[c].version = 1

\* C3: a change is authorised against the rows as they are now: a socket,
\* in the room or not, whose Collaborator row is gone or a reader's, or whose
\* share link is gone, revoked or expired, gets Forbidden and the document
\* keeps its data and version.
C3_ChangeReauthorized ==
    [][\A c \in Conns :
         (At(c, "change", "auth") /\ Steps(c)) =>
             LET d == pc[c].doc
                 lost == IF Guest(c)
                         THEN LET l == links[Val(conns[c].sharedToken)] IN
                              ~l.exists \/ ~l.isActive \/ LinkExpired(l)
                         ELSE RoleLevel(collab[<<d, Val(conns[c].userSub)>>]) # "edit"
             IN lost => /\ pc'[c] = Idle
                        /\ reply'.who = c /\ reply'.op = "change"
                        /\ reply'.result = "Forbidden"
                        /\ docs' = docs]_vars

\* C3 happens: the guest joined d1 on the editor link s1, the link was
\* revoked, and the guest's change is refused.
C3_Witness ==
    /\ "c3" \in rooms["d1"] /\ conns["c3"].sharedToken = Some("s1")
    /\ links["s1"].exists /\ ~links["s1"].isActive /\ links["s1"].uses = 1
    /\ reply.op = "change" /\ reply.who = "c3" /\ reply.result = "Forbidden"

\* C4: a change by an actor the resolver gives read fails with Forbidden,
\* leaves data and version as they were and sends no change event.
C4_ReaderCannotChange ==
    [][\A c \in Conns :
         (At(c, "change", "auth") /\ Steps(c) /\ Resolved(c, pc[c].doc) = "read") =>
             /\ pc'[c] = Idle
             /\ reply'.who = c /\ reply'.op = "change" /\ reply'.result = "Forbidden"
             /\ docs' = docs /\ wins' = wins
             /\ ChangeEvents(emits') = {}]_vars

\* C4 happens: a reader collaborator in the room is refused a change.
C4_Witness ==
    /\ collab[<<"d1", "u2">>] = "reader" /\ "c2" \in rooms["d1"]
    /\ reply.op = "change" /\ reply.who = "c2" /\ reply.result = "Forbidden"
    /\ wins["d1"] = <<>>

\* C5: an authenticated actor's join reports edit for the roles owner and
\* editor, read for reader, and fails with Forbidden without a Collaborator row.
C5_JoinPermissionByRole ==
    (reply.op = "join" /\ ~Guest(reply.who) /\ reply.result # "Unauthorized") =>
        LET level == RoleLevel(collab[<<reply.doc, Val(conns[reply.who].userSub)>>])
        IN IF level = "none" THEN reply.result = "Forbidden"
           ELSE reply.result = "ok" /\ reply.permission = level

\* C6: a join the resolver denies fails with Forbidden, adds nobody to the
\* room, emits no presence:joined and leaves the link's uses alone.
C6_DeniedJoinHasNoEffect ==
    [][\A c \in Conns :
         (At(c, "join", "auth") /\ Steps(c) /\ Resolved(c, pc[c].doc) = "none") =>
             /\ pc'[c] = Idle
             /\ reply'.op = "join" /\ reply'.who = c /\ reply'.result = "Forbidden"
             /\ rooms' = rooms /\ emits' = {} /\ links' = links]_vars

\* C7: presence:joined and presence:left go to every other member of the
\* room and never to the socket that joined or left.
C7_PresenceNeverEchoed ==
    \A e \in emits :
        e.type \in {"presence:joined", "presence:left"} =>
            e.to = rooms[e.doc] \ {e.from}

\* C8: a socket that closes without leaving is removed from each of its rooms
\* and every remaining member of each is sent presence:left for it.
C8_DisconnectAnnounced ==
    [][\A c \in Conns :
         (Connected(c) /\ conns'[c].status = "closed") =>
             \A d \in Docs : c \in rooms[d] =>
                 /\ c \notin rooms'[d]
                 /\ \A m \in rooms'[d] :
                       \E e \in emits' : /\ e.type = "presence:left"
                                         /\ e.doc = d /\ e.from = c
                                         /\ m \in e.to]_vars

\* C9: a change that fails with Conflict sends change:error of type
\* version_conflict to its sender alone, sends no change event and leaves
\* every room as it was.
C9_ConflictToldToSenderOnly ==
    [][\A c \in Conns :
         (pc[c].op = "change" /\ Steps(c) /\ reply'.op = "change"
            /\ reply'.result = "Conflict") =>
             /\ emits' = {Event("change:error", pc[c].doc, c, {c}, 0, Null)}
             /\ rooms' = rooms]_vars

\* C9 happens: a member of a room others are in is told of its conflict.
C9_Witness ==
    /\ reply.op = "change" /\ reply.result = "Conflict" /\ reply.who = "c2"
    /\ rooms["d1"] = {"c2", "c3"}
    /\ \E e \in emits : e.type = "change:error" /\ e.to = {"c2"}

\* C10: a change that commits sends one change event, with version
\* baseVersion + 1 and the ops submitted, to the room's members other than
\* the sender; no other step sends a change event.
C10_OneChangeEventPerCommit ==
    [][IF \E c \in Conns : At(c, "change", "write") /\ Steps(c) /\ reply'.result = "ok"
       THEN \A c \in Conns :
              (At(c, "change", "write") /\ Steps(c)) =>
                  ChangeEvents(emits') =
                      {Event("change", pc[c].doc, c, rooms[pc[c].doc] \ {c},
                             pc[c].version + 1, Some(pc[c].ops))}
       ELSE ChangeEvents(emits') = {}]_vars

\* C10 happens: a member's second commit reaches the other member only.
C10_Witness ==
    \E e \in emits :
        /\ e.type = "change" /\ e.from = "c2" /\ e.to = {"c3"} /\ e.version = 3
        /\ reply.op = "change" /\ reply.result = "ok" /\ reply.who = "c2"
        /\ docs["d1"].version = 3

\* C11: the uses of a share link with maxUses set never exceed maxUses,
\* however accept calls and guest joins on it interleave; stated here for a
\* positive maxUses, where a run past the limit needs two counters in flight.
C11_UsesWithinMaxUses ==
    \A s \in Slugs :
        (links[s].exists /\ ~IsNull(links[s].maxUses) /\ Val(links[s].maxUses) >= 1) =>
            links[s].uses <= Val(links[s].maxUses)

\* The link is a row that has been revoked.
Revoked(s) == links[s].exists /\ ~links[s].isActive

\* C12: once a link has isActive = false, every guest join, accept and
\* preview that reads it afterwards fails, whatever its uses and expiry, and
\* the failed call changes no uses and no Collaborator row.
C12_RevokedLinkRefusesAll ==
    [][/\ \A c \in Conns :
            (At(c, "join", "auth") /\ Steps(c) /\ Guest(c)
               /\ Revoked(Val(conns[c].sharedToken))) =>
                /\ pc'[c] = Idle /\ reply'.op = "join" /\ reply'.who = c
                /\ reply'.result = "Forbidden"
                /\ links' = links /\ collab' = collab /\ rooms' = rooms
       /\ \A u \in Users, s \in Slugs :
            (rest[u] = Idle /\ Revoked(s)
               /\ \/ rest'[u].op = "accept" /\ rest'[u].slug = s
                  \/ reply'.op = "accept" /\ reply'.who = u /\ reply'.doc = s) =>
                /\ rest'[u] = Idle /\ reply'.op = "accept" /\ reply'.result = "NotFound"
                /\ links' = links /\ collab' = collab
       /\ \A s \in Slugs :
            (reply'.op = "preview" /\ reply'.doc = s /\ Revoked(s)) =>
                /\ reply'.result = "NotFound"
                /\ links' = links /\ collab' = collab]_vars

\* C12 happens: a link with a use left and no expiry was revoked and a
\* guest's join on it is refused.
C12_Witness ==
    /\ Revoked("s1") /\ links["s1"].maxUses = Some(1) /\ links["s1"].uses = 0
    /\ IsNull(links["s1"].expiresAt)
    /\ reply.op = "join" /\ reply.result = "Forbidden" /\ Guest(reply.who)

\* No handler but user u's is in flight.
OnlyInFlight(u) ==
    /\ \A c \in Conns : pc[c] = Idle
    /\ \A v \in Users \ {u} : rest[v] = Idle

\* C13: accepts issued one after another on an active, unexpired link with
\* maxUses = n succeed and add exactly 1 to uses while uses < n; an accept
\* issued once uses has reached n fails with Forbidden and leaves uses and
\* the Collaborator rows as they were.
C13_SequentialAcceptsUpToMaxUses ==
    [][\A u \in Users, s \in Slugs :
         LET l == links[s] IN
         (OnlyInFlight(u) /\ l.exists /\ l.isActive /\ ~LinkExpired(l)
            /\ ~IsNull(l.maxUses)) =>
             /\ (rest[u] = Idle
                   /\ \/ rest'[u].op = "accept" /\ rest'[u].slug = s
                      \/ reply'.op = "accept" /\ reply'.who = u /\ reply'.doc = s) =>
                    IF l.uses < Val(l.maxUses)
                    THEN rest'[u].op = "accept" /\ links' = links
                    ELSE /\ rest'[u] = Idle /\ reply'.result = "Forbidden"
                         /\ links' = links /\ collab' = collab
             /\ (rest[u].op = "accept" /\ rest[u].slug = s /\ rest[u].link = l
                   /\ rest'[u] # rest[u]) =>
                    /\ reply'.op = "accept" /\ reply'.result = "ok"
                    /\ links'[s].uses = l.uses + 1]_vars

\* The link is a project-scope link the specification holds valid.
ValidProjectLink(l) ==
    /\ l.exists /\ l.isActive /\ ~LinkExpired(l) /\ ~LinkExhausted(l)
    /\ l.scope = "project" /\ ~IsNull(l.projectId)

\* C14: a valid project-scope link grants its minRole's level on every
\* document of its project: a guest holding it is let into each such
\* document and told that permission, and accept writes a Collaborator row
\* with role minRole for each such document.
C14_ProjectLinkCoversItsDocuments ==
    [][/\ \A c \in Conns :
            (Guest(c) /\ pc[c].op = "join" /\ Steps(c)
               /\ ValidProjectLink(links[Val(conns[c].sharedToken)])
               /\ ProjectOf(pc[c].doc) =
                     Val(links[Val(conns[c].sharedToken)].projectId)) =>
                IF pc'[c] = Idle
                THEN /\ reply'.op = "join" /\ reply'.result = "ok"
                     /\ reply'.permission =
                           Resolved(c, pc[c].doc)
                ELSE pc'[c].op = "join"
       /\ \A u \in Users :
            (rest[u].op = "accept" /\ rest'[u] = Idle
               /\ ValidProjectLink(rest[u].link)) =>
                \A d \in Docs :
                    (docs[d].exists /\ ProjectOf(d) = Val(rest[u].link.projectId)) =>
                        collab'[<<d, u>>] = rest[u].link.minRole]_vars

\* The guest sockets holding slug s that a join has put into a room.
JoinedGuests(s) ==
    {c \in Conns : /\ Guest(c) /\ conns[c].sharedToken = Some(s)
                   /\ \E d \in Docs : c \in rooms[d]}

\* C15: every guest connection adds exactly 1 to its link's uses at its
\* first successful join and nothing afterwards, however many other guest
\* connections hold the same slug; so a link still active has been used at
\* least once for each guest connection that joined with it.
C15_OneUsePerGuestConnection ==
    \A s \in Slugs :
        (links[s].exists /\ links[s].isActive) =>
            links[s].uses >= Cardinality(JoinedGuests(s))

\* C16: applyPatchWithVersion compares baseVersion with the version it reads.
\* Below that version the call changes no sheet and answers without error
\* with the stored nodes, edges and version; at or above it the call goes on
\* to write, the stored version becomes the version read plus one (one more
\* than the stored version when nothing was committed in between) and the
\* answer carries that new version.
C16_PatchVersionContract ==
    [][\A u \in Users :
          /\ (/\ rest[u].op = "patch" /\ rest[u].step = "read"
              /\ rest'[u] # rest[u]
              /\ sheets[rest[u].sheet].exists)
             => IF rest[u].baseVersion < sheets[rest[u].sheet].version
                THEN /\ sheets' = sheets
                     /\ rest'[u] = Idle
                     /\ reply'.op = "patch" /\ reply'.who = u
                     /\ reply'.result = "ok"
                     /\ reply'.version = sheets[rest[u].sheet].version
                     /\ reply'.data = Some(sheets[rest[u].sheet].data)
                ELSE /\ rest'[u].op = "patch" /\ rest'[u].step = "write"
                     /\ rest'[u].version = sheets[rest[u].sheet].version
                     /\ sheets' = sheets
          /\ (/\ rest[u].op = "patch" /\ rest[u].step = "write"
              /\ rest'[u] # rest[u]
              /\ sheets[rest[u].sheet].exists)
             => /\ sheets'[rest[u].sheet].version = rest[u].version + 1
                /\ (sheets[rest[u].sheet].version = rest[u].version
                      => sheets'[rest[u].sheet].version
                            = sheets[rest[u].sheet].version + 1)
                /\ reply'.op = "patch" /\ reply'.who = u
                /\ reply'.result = "ok"
                /\ reply'.version = sheets'[rest[u].sheet].version
    ]_vars

\* h1 has been patched from version 1 to 2 with new nodes, h2 is untouched,
\* and the call that just returned was answered with h1's stored state.
C16_Witness ==
    /\ sheets["h1"].version = 2 /\ sheets["h1"].data = [nodes |-> 1, edges |-> 0]
    /\ sheets["h2"] = SheetAt(1)
    /\ calls = 2 /\ \A u \in Users : rest[u] = Idle
    /\ reply.op = "patch" /\ reply.doc = "h1" /\ reply.result = "ok"
    /\ reply.version = 2 /\ reply.data = Some(sheets["h1"].data)

\* User u holds edit-or-better on the target of link l: on a document, the
\* resolver's level for u there (owning the project counts); on a project,
\* owning it or holding that level on one of its documents.
HoldsEditOnTarget(u, l) ==
    IF l.scope = "document"
    THEN /\ ~IsNull(l.documentId)
         /\ \/ OwnerSub(ProjectOf(Val(l.documentId))) = u
            \/ RoleLevel(collab[<<Val(l.documentId), u>>]) = "edit"
    ELSE /\ ~IsNull(l.projectId)
         /\ \/ OwnerSub(Val(l.projectId)) = u
            \/ \E d \in Docs : /\ ProjectOf(d) = Val(l.projectId)
                               /\ RoleLevel(collab[<<d, u>>]) = "edit"

\* C17: a share link is persisted only by a create whose caller holds
\* edit-or-better on the link's target, of document or of project scope, and
\* it is persisted with uses = 0 and isActive = true; a create answered
\* Forbidden persists nothing.
C17_CreateNeedsEditOnTarget ==
    [][/\ \A s \in Slugs :
            (~links[s].exists /\ links'[s].exists) =>
                /\ reply'.op = "create" /\ reply'.result = "ok"
                /\ HoldsEditOnTarget(reply'.who, links'[s])
                /\ links'[s].uses = 0 /\ links'[s].isActive
       /\ (reply'.op = "create" /\ reply'.result = "Forbidden") => links' = links
    ]_vars

\* C18: a link goes from active to revoked only by a revoke whose caller
\* holds edit-or-better on the link's target, of document or of project
\* scope; a revoke that fails leaves isActive as it was, and a revoke of a
\* link already revoked leaves the link as it was.
C18_RevokeNeedsEditOnTarget ==
    [][\A s \in Slugs :
          /\ (links[s].exists /\ links[s].isActive /\ ~links'[s].isActive) =>
                /\ reply'.op = "revoke" /\ reply'.result = "ok"
                /\ reply'.doc = s
                /\ HoldsEditOnTarget(reply'.who, links[s])
          /\ (reply'.op = "revoke" /\ reply'.doc = s /\ reply'.result # "ok") =>
                links'[s] = links[s]
          /\ (reply'.op = "revoke" /\ reply'.doc = s /\ Revoked(s)) =>
                links'[s] = links[s]
    ]_vars

\* C19: an accept that passed the link's checks completes whether or not the
\* actor already has rows on the link's documents: it answers ok and leaves
\* the actor with one row of role minRole on each of them and every other
\* row as it was, so an accept repeated after a first one leaves the
\* membership the first one produced.
C19_AcceptIdempotentUnderRetry ==
    [][\A u \in Users :
          (rest[u].op = "accept" /\ rest[u].step = "write" /\ rest'[u] # rest[u]) =>
              LET l == rest[u].link
                  targets == {d \in Docs : docs[d].exists /\ LinkCovers(l, d)}
              IN /\ reply'.op = "accept" /\ reply'.who = u
                 /\ reply'.result = "ok"
                 /\ \A k \in Docs \X Users :
                       collab'[k] = IF k[1] \in targets /\ k[2] = u
                                    THEN l.minRole ELSE collab[k]
                 /\ (\A d \in targets : collab[<<d, u>>] = l.minRole)
                       => collab' = collab
    ]_vars

\* u2 has accepted link s1 twice, and nobody else has used it.
C19_Witness ==
    /\ links["s1"].exists /\ links["s1"].uses = 2 /\ alreadyCounted = {}
    /\ collab[<<"d1", "u1">>] = "owner"
    /\ collab[<<"d1", "u2">>] = links["s1"].minRole
    /\ reply.op = "accept" /\ reply.who = "u2" /\ reply.result = "ok"
    /\ \A u \in Users : rest[u] = Idle

\* Socket c's handshake has run and carried neither a share-link token nor
\* a bearer token that verifies.
NoCredential(c) ==
    /\ conns[c].status # "new"
    /\ IsNull(conns[c].sharedToken)
    /\ IsNull(conns[c].jwt) \/ Val(conns[c].jwt) \notin Users

\* C20: a socket whose handshake carried neither a share-link token nor a
\* bearer token that verifies never gets a userSub and is never left open:
\* it is closed, at the latest when verification fails; a join or change on
\* it is answered Unauthorized, no handler runs for it and it is in no room.
\* A socket with a share-link token is a guest named after the token, and a
\* socket whose bearer token has verified carries the token's subject and
\* is no guest.
C20_IdentityFromHandshake ==
    \A c \in Conns :
        /\ NoCredential(c) =>
              /\ IsNull(conns[c].userSub)
              /\ conns[c].status \in {"verifying", "closed"}
              /\ IsNull(conns[c].jwt) => conns[c].status = "closed"
              /\ pc[c] = Idle
              /\ \A d \in Docs : c \notin rooms[d]
              /\ (reply.op \in {"join", "change"} /\ reply.who = c)
                    => reply.result = "Unauthorized"
        /\ (conns[c].status # "new" /\ ~IsNull(conns[c].sharedToken)) =>
              /\ conns[c].isGuest
              /\ conns[c].userSub = Some(GuestSub(Val(conns[c].sharedToken)))
        /\ (conns[c].status = "open" /\ IsNull(conns[c].sharedToken)) =>
              /\ ~conns[c].isGuest
              /\ ~IsNull(conns[c].jwt) /\ Val(conns[c].jwt) \in Users
              /\ conns[c].userSub = conns[c].jwt

\* c2's bearer token does not verify and its join has just been answered
\* Unauthorized, c1 came without credentials and is closed, and c3 is a
\* guest in d1's room.
C20_Witness ==
    /\ conns["c2"].jwt = Some("bad")
    /\ reply.op = "join" /\ reply.who = "c2" /\ reply.result = "Unauthorized"
    /\ IsNull(conns["c1"].jwt) /\ conns["c1"].status = "closed"
    /\ conns["c3"].isGuest /\ "c3" \in rooms["d1"]

HoldsEdit(u, d) ==
    \/ OwnerSub(ProjectOf(d)) = u
    \/ RoleLevel(collab[<<d, u>>]) = "edit"

\* C22: a step of a sheet patch whose actor does not hold edit permission on
\* the sheet's document rejects the patch as Forbidden and leaves every
\* sheet's data and version as they were.
C22_SheetPatchAuthorized ==
    [][\A u \in Users :
          (/\ rest[u].op = "patch" /\ rest'[u] # rest[u]
           /\ sheets[rest[u].sheet].exists
           /\ ~HoldsEdit(u, sheets[rest[u].sheet].documentId))
          => /\ reply'.op = "patch" /\ reply'.result = "Forbidden"
             /\ sheets' = sheets
    ]_vars

\* C23: a patch that read version v and writes after another patch has
\* committed v + 1 on the same sheet still succeeds: it answers v + 1, the
\* stored version stays v + 1 and the stored nodes and edges become its own
\* merge of what it read, so the earlier writer's arrays are gone.
C23_RacingPatchesBothSucceed ==
    [][\A u \in Users :
          (/\ rest[u].op = "patch" /\ rest[u].step = "write"
           /\ rest'[u] # rest[u]
           /\ sheets[rest[u].sheet].exists
           /\ sheets[rest[u].sheet].version = rest[u].version + 1)
          => /\ reply'.op = "patch" /\ reply'.who = u /\ reply'.result = "ok"
             /\ reply'.version = rest[u].version + 1
             /\ sheets'[rest[u].sheet].version = rest[u].version + 1
             /\ sheets'[rest[u].sheet].data = rest[u].next
    ]_vars

\* Both patches read h1 at version 1. u1 has committed new nodes and was
\* answered version 2; u2 is about to write version 2 with new edges and the
\* nodes it read.
C23_Witness ==
    /\ reply.op = "patch" /\ reply.who = "u1" /\ reply.result = "ok"
    /\ reply.doc = "h1" /\ reply.version = 2
    /\ sheets["h1"].version = 2 /\ sheets["h1"].data = [nodes |-> 1, edges |-> 0]
    /\ rest["u2"].op = "patch" /\ rest["u2"].step = "write"
    /\ rest["u2"].sheet = "h1" /\ rest["u2"].version = 1
    /\ rest["u2"].next = [nodes |-> 0, edges |-> 2]

\* C24: a presence event is sent for a sender that is in the document's
\* room, then to every other member of the room and not to the sender; for a
\* sender outside the room it is sent to nobody; and the step that sends it
\* changes no document, share link or sheet.
C24_PresenceFromMembersOnly ==
    [][\A e \in emits' :
          e.type = "presence" =>
              /\ IF e.from \in rooms[e.doc]
                 THEN e.to = rooms[e.doc] \ {e.from}
                 ELSE e.to = {}
              /\ docs' = docs /\ links' = links /\ sheets' = sheets
    ]_vars

\* C25: the versions of the change events a socket is sent, in the order it
\* is sent them, are strictly increasing.
C25_ChangeEventsInCommitOrder ==
    \A p \in Conns :
        \A i, j \in 1..Len(received[p]) :
            i < j => received[p][i] < received[p][j]

\* The active sheets of document d.
ActiveSheets(d) ==
    {h \in SheetIds : sheets[h].exists /\ sheets[h].isActive /\ sheets[h].documentId = d}

\* C26: a document with an active sheet has an active sheet after every
\* step, however the deletes of SheetsService.delete and
\* deleteViaSharedLink interleave.
C26_LastActiveSheetKept ==
    [][\A d \in Docs : ActiveSheets(d) # {} => ActiveSheets(d)' # {}]_vars

\* C30: a shared-link update changes a sheet only of the document the
\* link was issued for, whatever documentId the request names.
C30_SharedUpdateStaysInLinkDocument ==
    [][\A u \in Users, h \in SheetIds :
          ( /\ rest[u].op = "shared.update"
            /\ rest[u].sheet = h
            /\ GetByToken(rest[u].token).scope = "document"
            /\ sheets'[h] # sheets[h] )
          => GetByToken(rest[u].token).documentId = Some(sheets[h].documentId)]_vars

\* A stored link names exactly the target its scope asks for.
OneTarget(l) ==
    /\ l.scope = "document" => ~IsNull(l.documentId) /\ IsNull(l.projectId)
    /\ l.scope = "project" => ~IsNull(l.projectId) /\ IsNull(l.documentId)

\* C27: every persisted link has exactly the target id of its scope and the
\* other one null, and a create whose body lacks the target id of its scope
\* is rejected and persists nothing.
C27_LinkHasExactlyOneTarget ==
    [][ /\ \A s \in Slugs : links'[s].exists => OneTarget(links'[s])
        /\ \A u \in Users, dto \in Dtos :
              ( CreateDto(u, dto)
                /\ \/ ScopeOf(dto) = "project" /\ IsNull(dto.projectId)
                   \/ ScopeOf(dto) = "document" /\ IsNull(dto.documentId) )
              => /\ links' = links
                 /\ rest'[u] = Idle
                 /\ reply'.op = "create" /\ reply'.result = "BadRequest" ]_vars

\* A project link is stored and a create without the target id of its
\* scope has just been refused.
C27_Witness ==
    /\ reply.op = "create" /\ reply.result = "BadRequest"
    /\ \E s \in Slugs : links[s].exists /\ links[s].scope = "project"

\* owner > editor > reader > no row.
RoleRank(r) ==
    IF r = "owner" THEN 3 ELSE IF r = "editor" THEN 2
    ELSE IF r = "reader" THEN 1 ELSE 0

\* C28: accepting a link never lowers the role the actor already holds on
\* a document.
C28_AcceptNeverLowersRole ==
    [][\A u \in Users, d \in Docs :
          rest[u].op = "accept"
          => RoleRank(collab'[<<d, u>>]) >= RoleRank(collab[<<d, u>>])]_vars

\* Guest socket c joined through an editor link on d that is still active
\* and unexpired, and the one use counted on the link is the guest's own.
OwnUseOnly(c, d) ==
    /\ Guest(c)
    /\ LET s == Val(conns[c].sharedToken) IN
       /\ s \in alreadyCounted
       /\ FoundActive(s) /\ ~IsExpired(links[s])
       /\ links[s].minRole = "editor" /\ links[s].documentId = Some(d)
       /\ links[s].uses = 1

\* C29: a guest whose own join is the only use counted on its editor link
\* is not refused when it then sends a change or joins again, whatever the
\* link's maxUses.
C29_GuestNotLockedOutByOwnUse ==
    [][\A c \in Conns :
          ( /\ pc[c].op \in {"join", "change"}
            /\ pc[c].step = "auth"
            /\ OwnUseOnly(c, pc[c].doc)
            /\ pc'[c] # pc[c] )
          => (reply'.op = "none" \/ reply'.result # "Forbidden")]_vars
====
